---------------------------- MODULE Spec2Model ----------------------------
(***************************************************************************)
(* Model of the email verifier: the SMTP response parser (core/parser.js), *)
(* the SMTP session client (core/smtp-client.js) and the verification      *)
(* pipeline verifyEmail (core/verifier.js, held in src/src/core/dns.js).   *)
(*                                                                         *)
(* Text is modelled as sequences of one-character strings, so that the     *)
(* parser works on the bytes it is given.                                  *)
(***************************************************************************)
EXTENDS Integers, Sequences, FiniteSets, TLC

VARIABLES
    \* ---- parser harness: a buffer and the result of parsing it
    pbuf,       \* the raw buffer handed to parseSmtpResponse
    pres,       \* NotRun, or what parseSmtpResponse(pbuf) returned
    \* ---- SmtpClient (core/smtp-client.js) and the sockets it holds
    state,      \* this.state
    socket,     \* this.socket: 0 is null, else an index of socks
    socks,      \* every socket opened so far: [destroyed, wire]
    call,       \* the client method in flight and the await it is at
    ret,        \* how the last client method ended: returned or threw
    ncalls,     \* client methods called so far
    \* ---- the SMTP server and the network
    chunks,     \* data chunks sent by the server, not yet emitted as 'data'
    srv,        \* the server: commands it has not answered, and whether it
                \* has stopped answering
    idleFired,  \* the socket's idle timer emitted 'timeout'
    \* ---- verifyEmail (core/verifier.js)
    pc,         \* where verifyEmail is
    email,      \* its argument
    results,    \* the verdict it builds
    locals,     \* mxResult, nonceRes, targetRes, smtpErr
    \* ---- getMXRecords (core/dns.js)
    dns,        \* one MX resolution: where it is and what it did so far
    \* ---- connectToSmtp (core/connection.js)
    conn,       \* one connection attempt: where it is and what it did so far
    \* ---- the command-line tools (index.js, bulk.js) and the output mapper
    mapper,     \* formatOutput: the verdict it was given and what it returned
    bulk        \* bulk.js main: the lines, the batch in flight, the records

parserVars == <<pbuf, pres>>
clientVars == <<state, socket, socks, call, ret, ncalls>>
netVars == <<chunks, srv, idleFired>>
verifierVars == <<pc, email, results, locals>>
dnsVars == <<dns>>
connVars == <<conn>>
toolVars == <<mapper, bulk>>
vars == <<pbuf, pres, state, socket, socks, call, ret, ncalls,
          chunks, srv, idleFired, pc, email, results, locals, dns, conn, mapper, bulk>>

-----------------------------------------------------------------------------
(* Bounds of the model *)

\* the parser harness builds buffers of at most MaxTokens tokens
MaxTokens == 5

\* a caller of SmtpClient makes at most MaxCalls method calls
MaxCalls == 6

\* at most MaxSockets connections are opened by one SmtpClient
MaxSockets == 2

\* connectToSmtp is called at most MaxConnects times in a row
MaxConnects == 2

-----------------------------------------------------------------------------
(* Values *)

\* JavaScript null
Null == [isNull |-> TRUE]

\* the parser harness has not parsed the current buffer yet
NotRun == [notRun |-> TRUE]

CLASSIFICATION == {"SUCCESS", "INTERMEDIATE", "TRANSIENT_FAIL", "PERMANENT_FAIL", "PROTOCOL_ERROR"}

Digits == {"0", "1", "2", "3", "4", "5", "6", "7", "8", "9"}

DigitVal(c) ==
    CASE c = "0" -> 0 [] c = "1" -> 1 [] c = "2" -> 2 [] c = "3" -> 3
      [] c = "4" -> 4 [] c = "5" -> 5 [] c = "6" -> 6 [] c = "7" -> 7
      [] c = "8" -> 8 [] c = "9" -> 9

-----------------------------------------------------------------------------
(* core/parser.js *)

classifyCode(code) ==
    IF code >= 200 /\ code < 300 THEN "SUCCESS"
    ELSE IF code >= 300 /\ code < 400 THEN "INTERMEDIATE"
    ELSE IF code >= 400 /\ code < 500 THEN "TRANSIENT_FAIL"
    ELSE IF code >= 500 /\ code < 600 THEN "PERMANENT_FAIL"
    ELSE "PROTOCOL_ERROR"

\* rawBuffer.split(/\r?\n/): the pieces between the line terminators LF and
\* CRLF; a CR that is not followed by LF stays in its piece.
RECURSIVE SplitFrom(_, _, _)
SplitFrom(buf, i, cur) ==
    IF i > Len(buf) THEN <<cur>>
    ELSE IF buf[i] = "\n" THEN <<cur>> \o SplitFrom(buf, i + 1, <<>>)
    ELSE IF buf[i] = "\r" /\ i < Len(buf) /\ buf[i + 1] = "\n"
         THEN <<cur>> \o SplitFrom(buf, i + 2, <<>>)
    ELSE SplitFrom(buf, i + 1, Append(cur, buf[i]))

SplitLines(buf) == SplitFrom(buf, 1, <<>>)

\* /^\d{3}/
ThreeDigits(line) ==
    Len(line) >= 3 /\ line[1] \in Digits /\ line[2] \in Digits /\ line[3] \in Digits

\* faulty variant of MatchFinalLine: /^(\d{3})/, any byte may follow the code
MatchFinalLine_AnySeparator(line) == ThreeDigits(line)

\* lastLine.match(/^(\d{3})(?: (.*)|$)/): three digits, then a space (and
\* anything) or the end of the string
MatchFinalLine(line) ==
    ThreeDigits(line) /\ (Len(line) = 3 \/ line[4] = " ")

\* /^\d{3}-/.test(lastLine)
IsIntermediateLine(line) ==
    ThreeDigits(line) /\ Len(line) >= 4 /\ line[4] = "-"

\* parseInt(lastLineMatch[1], 10)
ParseCode(line) ==
    100 * DigitVal(line[1]) + 10 * DigitVal(line[2]) + DigitVal(line[3])

\* faulty variant of NonEmptyLines: the empty pieces are kept
NonEmptyLines_KeepEmpty(rawBuffer) == SplitLines(rawBuffer)

\* rawBuffer.split(/\r?\n/).filter((line) => line.length > 0)
NonEmptyLines(rawBuffer) ==
    SelectSeq(SplitLines(rawBuffer), LAMBDA l : Len(l) > 0)

\* \s, over the bytes a buffer can hold
Whitespace == {" ", "\r", "\n", "\t"}

\* the length of the run of digits that starts at line[i]
RECURSIVE DigitRun(_, _)
DigitRun(line, i) ==
    IF i <= Len(line) /\ line[i] \in Digits THEN 1 + DigitRun(line, i + 1) ELSE 0

\* line.match(/^\d{3}[ -](\d{1,3}\.\d{1,3}\.\d{1,3})\s/): <<>> is null, else
\* <<the x.y.z text>>. Each group is a run of one to three digits that is
\* directly followed by the "." (or, for the last one, the whitespace) the
\* pattern asks for.
extractEnhancedCode(line) ==
    IF ~(ThreeDigits(line) /\ Len(line) >= 4 /\ line[4] \in {" ", "-"}) THEN <<>>
    ELSE LET a == DigitRun(line, 5)
             b == DigitRun(line, 5 + a + 1)
             c == DigitRun(line, 5 + a + 1 + b + 1)
             end == 5 + a + 1 + b + 1 + c
         IN IF /\ a \in 1..3
               /\ 5 + a <= Len(line) /\ line[5 + a] = "."
               /\ b \in 1..3
               /\ 5 + a + 1 + b <= Len(line) /\ line[5 + a + 1 + b] = "."
               /\ c \in 1..3
               /\ end <= Len(line) /\ line[end] \in Whitespace
            THEN <<SubSeq(line, 5, end - 1)>>
            ELSE <<>>

\* for (const line of lines) { const ec = extractEnhancedCode(line); ... break }
RECURSIVE FirstEnhancedCode(_, _)
FirstEnhancedCode(lines, i) ==
    IF i > Len(lines) THEN <<>>
    ELSE IF extractEnhancedCode(lines[i]) # <<>> THEN extractEnhancedCode(lines[i])
    ELSE FirstEnhancedCode(lines, i + 1)

\* l.substring(4)
Substring4(l) == SubSeq(l, 5, Len(l))

\* parts.join(" ")
RECURSIVE JoinSpace(_, _)
JoinSpace(parts, i) ==
    IF i > Len(parts) THEN <<>>
    ELSE IF i = Len(parts) THEN parts[i]
    ELSE parts[i] \o <<" ">> \o JoinSpace(parts, i + 1)

\* s.trim()
RECURSIVE TrimStart(_)
TrimStart(s) ==
    IF s # <<>> /\ s[1] \in Whitespace THEN TrimStart(Tail(s)) ELSE s

RECURSIVE TrimEnd(_)
TrimEnd(s) ==
    IF s # <<>> /\ s[Len(s)] \in Whitespace THEN TrimEnd(SubSeq(s, 1, Len(s) - 1))
    ELSE s

Trim(s) == TrimEnd(TrimStart(s))

\* s.indexOf(sub), counted from 1; 0 when sub does not occur in s
RECURSIVE IndexOfFrom(_, _, _)
IndexOfFrom(s, sub, i) ==
    IF i + Len(sub) - 1 > Len(s) THEN 0
    ELSE IF SubSeq(s, i, i + Len(sub) - 1) = sub THEN i
    ELSE IndexOfFrom(s, sub, i + 1)

IndexOf(s, sub) == IndexOfFrom(s, sub, 1)

\* s.replace(sub, "") with a string pattern: the first occurrence only
RemoveFirst(s, sub) ==
    LET k == IndexOf(s, sub) IN
    IF k = 0 THEN s
    ELSE SubSeq(s, 1, k - 1) \o SubSeq(s, k + Len(sub), Len(s))

\* s.replace(/\s+/g, " ")
RECURSIVE CollapseWhitespace(_)
CollapseWhitespace(s) ==
    IF s = <<>> THEN <<>>
    ELSE IF s[1] \in Whitespace
         THEN <<" ">> \o CollapseWhitespace(TrimStart(s))
    ELSE <<s[1]>> \o CollapseWhitespace(Tail(s))

\* lines.map((l) => l.substring(4)).join(" ").trim()
RawMessage(lines) ==
    Trim(JoinSpace([i \in 1..Len(lines) |-> Substring4(lines[i])], 1))

\* the message with the enhanced code taken out (parser.js, cleanMessage)
CleanMessage(rawMessage, enhancedCode) ==
    IF enhancedCode = <<>> THEN rawMessage
    ELSE CollapseWhitespace(Trim(RemoveFirst(rawMessage, enhancedCode[1])))

parseSmtpResponse(rawBuffer) ==
    IF rawBuffer = <<>> THEN Null
    ELSE LET lines == NonEmptyLines(rawBuffer) IN
         IF Len(lines) = 0 THEN Null
         ELSE LET lastLine == lines[Len(lines)] IN
              IF ~MatchFinalLine(lastLine) \/ IsIntermediateLine(lastLine)
              THEN Null
              ELSE [code |-> ParseCode(lastLine),
                    enhancedCode |-> FirstEnhancedCode(lines, 1),
                    message |-> CleanMessage(RawMessage(lines),
                                             FirstEnhancedCode(lines, 1)),
                    lines |-> lines,
                    classification |-> classifyCode(ParseCode(lastLine))]

-----------------------------------------------------------------------------
(* core/dns.js: MX resolution *)

\* DNS_CONFIG.MAX_RETRIES
MAX_RETRIES == 2

\* DNS_CONFIG.RETRY_DELAY_BASE
RETRY_DELAY_BASE == 500

\* the priority given to a record that carries none
DefaultPriority == 65535

\* Packet.TYPE.MX
TypeMX == 15

\* Packet.TYPE.A
TypeA == 1

\* the resolver chain: PRIMARY_SERVERS, FALLBACK_SERVERS, SECONDARY_SERVERS
ResolverChain == <<"primary", "fallback", "secondary">>

ERROR_TYPES == {"HARD_FAIL", "SOFT_FAIL", "TIMEOUT", "NO_MX_RECORDS", "INVALID_DOMAIN"}

\* an Error object: its message is kept as a sequence of words, "" is a
\* property that is not set, attempts = 0 is err.attempts not set
NewError(message, code, type) ==
    [message |-> message, code |-> code, type |-> type, attempts |-> 0]

\* message.includes(word), on the words of the message
MessageIncludes(message, word) == \E i \in 1..Len(message) : message[i] = word

classifyError(err) ==
    IF \/ err.code = "ETIMEDOUT"
       \/ MessageIncludes(err.message, "timeout")
       \/ MessageIncludes(err.message, "timed out")
    THEN "TIMEOUT"
    ELSE IF \/ err.code = "ENOTFOUND"
            \/ MessageIncludes(err.message, "NXDOMAIN")
            \/ MessageIncludes(err.message, "non-existent")
    THEN "HARD_FAIL"
    ELSE IF err.code = "ECONNREFUSED" \/ MessageIncludes(err.message, "refused")
    THEN "SOFT_FAIL"
    ELSE IF \/ err.code = "SERVFAIL"
            \/ MessageIncludes(err.message, "server failure")
            \/ MessageIncludes(err.message, "500")
    THEN "SOFT_FAIL"
    ELSE IF err.code = "EINVAL" \/ MessageIncludes(err.message, "invalid")
    THEN "INVALID_DOMAIN"
    ELSE "SOFT_FAIL"

\* parseInt(a.priority, 10) || 65535: the key the records are compared by
SortKey(priority) == IF priority = 0 THEN 65535 ELSE priority

\* Array.prototype.sort with the comparator priorityA - priorityB: a stable
\* sort, here by insertion from the left
RECURSIVE InsertByKey(_, _)
InsertByKey(sorted, r) ==
    IF sorted = <<>> THEN <<r>>
    ELSE IF SortKey(sorted[Len(sorted)].priority) <= SortKey(r.priority)
         THEN Append(sorted, r)
    ELSE Append(InsertByKey(SubSeq(sorted, 1, Len(sorted) - 1), r),
                sorted[Len(sorted)])

RECURSIVE SortFrom(_, _, _)
SortFrom(mxRecords, i, sorted) ==
    IF i > Len(mxRecords) THEN sorted
    ELSE SortFrom(mxRecords, i + 1, InsertByKey(sorted, mxRecords[i]))

sortMXByPriority(mxRecords) ==
    IF Len(mxRecords) = 0 THEN <<>> ELSE SortFrom(mxRecords, 1, <<>>)

\* the characters domains are written with
AlNum == {"a", "b", "c", "o"} \cup Digits

\* domain.split("."), the labels of a domain
RECURSIVE LabelsFrom(_, _, _)
LabelsFrom(domain, i, cur) ==
    IF i > Len(domain) THEN <<cur>>
    ELSE IF domain[i] = "." THEN <<cur>> \o LabelsFrom(domain, i + 1, <<>>)
    ELSE LabelsFrom(domain, i + 1, Append(cur, domain[i]))

\* [a-z0-9](?:[a-z0-9-]{0,61}[a-z0-9])?
IsLabel(l) ==
    /\ Len(l) \in 1..63
    /\ l[1] \in AlNum
    /\ l[Len(l)] \in AlNum
    /\ \A i \in 1..Len(l) : l[i] \in AlNum \cup {"-"}

\* [a-z0-9]{2,}
IsTopLabel(l) == Len(l) >= 2 /\ \A i \in 1..Len(l) : l[i] \in AlNum

\* /^(?:[a-z0-9](?:[a-z0-9-]{0,61}[a-z0-9])?\.)+[a-z0-9]{2,}$/i and the
\* length limits
isValidDomain(domain) ==
    /\ Len(domain) > 0
    /\ Len(domain) <= 253
    /\ LET labels == LabelsFrom(domain, 1, <<>>) IN
       /\ Len(labels) >= 2
       /\ \A i \in 1..(Len(labels) - 1) : IsLabel(labels[i])
       /\ IsTopLabel(labels[Len(labels)])

\* an answer of a DNS reply; priority <<>> is a record without a priority
Answer(type, exchange, priority) ==
    [type |-> type, exchange |-> exchange, priority |-> priority]

\* faulty variant of IsUsable: records with an empty exchange are kept
IsUsable_AnyExchange(answer) == answer.type = TypeMX

\* .filter(answer.type === MX).map(...).filter((mx) => mx.exchange)
IsUsable(answer) == answer.type = TypeMX /\ answer.exchange # ""

\* .map((answer) => ({ exchange, priority: answer.priority ?? 65535 }))
ToMx(answer) ==
    [exchange |-> answer.exchange,
     priority |-> IF answer.priority = <<>> THEN DefaultPriority
                  ELSE answer.priority[1]]

RECURSIVE UsableFrom(_, _)
UsableFrom(answers, i) ==
    IF i > Len(answers) THEN <<>>
    ELSE IF IsUsable(answers[i]) THEN <<ToMx(answers[i])>> \o UsableFrom(answers, i + 1)
    ELSE UsableFrom(answers, i + 1)

UsableMx(answers) == UsableFrom(answers, 1)

\* what one query can end with: the resolver's promise or the timeout promise
\* rejects with an error, or the resolver returns a reply (Null: no reply
\* object, or one without answers)
\* resolveMX: the error timeoutPromise rejects with
QueryTimeout == NewError(<<"DNS", "query", "timeout">>, "", "")

ResolverErrors ==
    { NewError(<<"connect", "ETIMEDOUT">>, "ETIMEDOUT", ""),
      QueryTimeout,
      NewError(<<"getaddrinfo", "ENOTFOUND">>, "ENOTFOUND", ""),
      NewError(<<"connect", "ECONNREFUSED">>, "ECONNREFUSED", ""),
      NewError(<<"query", "SERVFAIL">>, "SERVFAIL", ""),
      NewError(<<"EINVAL">>, "EINVAL", ""),
      NewError(<<"socket", "hang", "up">>, "", "") }

ResolverAnswers ==
    { <<>>,
      <<Answer(TypeA, "", <<>>)>>,
      <<Answer(TypeMX, "", <<10>>)>>,
      <<Answer(TypeMX, "m1", <<10>>)>>,
      <<Answer(TypeA, "", <<>>), Answer(TypeMX, "m1", <<20>>), Answer(TypeMX, "m2", <<10>>)>>,
      <<Answer(TypeMX, "m1", <<10>>), Answer(TypeMX, "m2", <<0>>)>>,
      <<Answer(TypeMX, "m1", <<>>), Answer(TypeMX, "m2", <<10>>), Answer(TypeMX, "m3", <<10>>)>> }

ResolverOutcomes ==
    {[threw |-> TRUE, err |-> e, answers |-> <<>>] : e \in ResolverErrors}
        \cup {[threw |-> FALSE, err |-> Null, answers |-> a] : a \in ResolverAnswers}

\* resolveMX, one pass of the try block once the query has ended: the sorted
\* records, or the error thrown into the catch block
TryBlock(outcome) ==
    IF outcome.threw THEN [ok |-> FALSE, err |-> outcome.err, records |-> <<>>]
    ELSE IF Len(outcome.answers) = 0
    THEN [ok |-> FALSE, records |-> <<>>,
          err |-> NewError(<<"No", "MX", "records", "found", "for", "domain:">>,
                           "ENODATA", "NO_MX_RECORDS")]
    ELSE IF Len(UsableMx(outcome.answers)) = 0
    THEN [ok |-> FALSE, records |-> <<>>,
          err |-> NewError(<<"No", "valid", "MX", "records", "found", "for", "domain:">>,
                           "ENODATA", "NO_MX_RECORDS")]
    ELSE [ok |-> TRUE, err |-> Null,
          records |-> sortMXByPriority(UsableMx(outcome.answers))]

\* resolveMX: isHardFail
IsHardFail(errorType) == errorType \in {"HARD_FAIL", "INVALID_DOMAIN", "NO_MX_RECORDS"}

\* resolveMXWithFallback: isHardFail
ChainStops(errType) == errType \in {"HARD_FAIL", "INVALID_DOMAIN"}

\* no MX resolution is running
NoDns ==
    [pc |-> "idle", domain |-> <<>>, tier |-> 0, attempt |-> 0,
     queried |-> <<0, 0, 0>>, delays |-> <<>>, causes |-> <<>>, calls |-> <<>>,
     answers |-> <<>>, result |-> Null]

IdleDns == dns = NoDns

\* getMXRecords: the object returned from the catch block
GetMxFailure(d, err) ==
    [d EXCEPT !.pc = "done",
              !.result = [success |-> FALSE, records |-> <<>>, recordCount |-> 0,
                          error |-> [message |-> err.message,
                                     type |-> IF err.type = "" THEN "UNKNOWN" ELSE err.type,
                                     code |-> IF err.code = "" THEN "UNKNOWN" ELSE err.code,
                                     attempts |-> IF err.attempts = 0 THEN 1
                                                  ELSE err.attempts]]]

\* getMXRecords: the object returned when resolveMXWithFallback resolved
GetMxSuccess(d, records) ==
    [d EXCEPT !.pc = "done",
              !.result = [success |-> TRUE, records |-> records,
                          recordCount |-> Len(records), error |-> Null]]

\* resolveMX called for resolverChain[t] with a valid domain: the loop is
\* entered and the first query is issued
EnterTier(d, t) ==
    [d EXCEPT !.pc = "query", !.tier = t, !.attempt = 0, !.causes = <<>>,
              !.queried[t] = @ + 1]

\* resolveMXWithFallback: resolveMX threw err for the tier d.tier
FallbackCatch(d, err) ==
    LET d1 == [d EXCEPT !.calls = Append(@, [ok |-> FALSE, type |-> err.type,
                                               causes |-> d.causes])] IN
    IF ChainStops(err.type) THEN GetMxFailure(d1, err)
    ELSE IF d.tier < Len(ResolverChain) THEN EnterTier(d1, d.tier + 1)
    ELSE GetMxFailure(d1, NewError(<<"MX", "resolution", "failed", "across", "all",
                                     "DNS", "servers">>,
                                   "EDNS_ALL_RESOLVERS_FAILED", "SOFT_FAIL"))

\* resolveMX: the catch block, for the error err of the attempt that just
\* ended; nodata tells that the attempt got a reply without a usable record,
\* timer that it was ended by the timer of the race
CatchBlock(d, err, nodata) ==
    LET errorType == classifyError(err)
        d1 == [d EXCEPT !.causes = Append(@, [type |-> errorType, nodata |-> nodata,
                                               timer |-> err = QueryTimeout])]
    IN
    IF IsHardFail(errorType)
    THEN FallbackCatch(d1, [err EXCEPT !.type = errorType,
                                       !.code = IF @ = "" THEN "EDNS_HARD_FAIL" ELSE @])
    ELSE IF d.attempt + 1 < MAX_RETRIES + 1
    THEN [d1 EXCEPT !.pc = "backoff", !.attempt = @ + 1,
                    !.delays = Append(@, [tier |-> d.tier,
                                          ms |-> RETRY_DELAY_BASE * 2 ^ d.attempt])]
    ELSE FallbackCatch([d1 EXCEPT !.attempt = @ + 1],
                       [err EXCEPT !.type = "SOFT_FAIL",
                                   !.code = IF @ = "" THEN "EDNS_RETRIES_EXHAUSTED" ELSE @,
                                   !.attempts = MAX_RETRIES + 1])

\* the domains getMXRecords is called with
Domains == {<<"b", ".", "c", "o">>, <<"b">>, <<>>, <<"-", "b", ".", "c", "o">>,
            <<"b", ".", "c">>}

\* getMXRecords(domain) is called: resolveMXWithFallback calls resolveMX for
\* the primary servers, which rejects a malformed domain before any query
GetMxCall ==
    /\ dns.pc = "idle"
    /\ \E domain \in Domains :
        dns' = IF ~isValidDomain(domain)
               THEN FallbackCatch([dns EXCEPT !.domain = domain, !.tier = 1],
                                  NewError(<<"Invalid", "domain", "format:">>,
                                           "EINVAL", "INVALID_DOMAIN"))
               ELSE EnterTier([dns EXCEPT !.domain = domain], 1)
    /\ UNCHANGED <<parserVars, clientVars, netVars, verifierVars, connVars, toolVars>>

\* await Promise.race([promise, timeoutPromise]) settles, and resolveMX runs
\* to its next await, or to its end with everything that follows from it in
\* resolveMXWithFallback and getMXRecords
QueryDone ==
    /\ dns.pc = "query"
    /\ \E outcome \in ResolverOutcomes :
        LET t == TryBlock(outcome) IN
        dns' = IF t.ok
               THEN GetMxSuccess([dns EXCEPT !.answers = outcome.answers,
                                             !.calls = Append(@, [ok |-> TRUE, type |-> "",
                                                                  causes |-> dns.causes])],
                                 t.records)
               ELSE CatchBlock(dns, t.err, ~outcome.threw)
    /\ UNCHANGED <<parserVars, clientVars, netVars, verifierVars, connVars, toolVars>>

\* the back-off delay ends and the loop issues the next query
BackoffDone ==
    /\ dns.pc = "backoff"
    /\ dns' = [dns EXCEPT !.pc = "query", !.queried[dns.tier] = @ + 1]
    /\ UNCHANGED <<parserVars, clientVars, netVars, verifierVars, connVars, toolVars>>

-----------------------------------------------------------------------------
(* core/connection.js: connectToSmtp *)

CONNECTION_ERROR_TYPES ==
    {"PROXY_AUTH_FAILED", "PROXY_HANDSHAKE_TIMEOUT", "PROXY_CONNECTION_FAILED",
     "SMTP_BANNER_TIMEOUT", "SMTP_BANNER_INVALID", "SMTP_CONNECTION_FAILED",
     "SMTP_SOCKET_ERROR", "SOCKET_TIMEOUT", "SOCKET_DESTROYED", "INVALID_CONFIG"}

\* CONNECTION_CONFIG.SMTP_BANNER_CODE
SMTP_BANNER_CODE == <<"2", "2", "0">>

\* no SOCKS reply code: null
NoSocksCode == -1

\* an error of a socket or of the SOCKS library: the words of its message,
\* err.code ("" when not set), err.socksResponseCode and the reply code its
\* message spells as "code 0xNN" (NoSocksCode when there is none)
SockError(message, code, socksResponseCode, messageCode) ==
    [message |-> message, code |-> code, socksResponseCode |-> socksResponseCode,
     messageCode |-> messageCode]

\* an error as createDirectConnection, createProxyConnection and
\* receiveBanner reject with it ("" is a property that is not set)
Rejection(message, type, code, socksCode, socksErrorPhase) ==
    [message |-> message, type |-> type, code |-> code, socksCode |-> socksCode,
     socksErrorPhase |-> socksErrorPhase]

\* an entry of codeMap
SocksClass(phase, type, retryable) ==
    [phase |-> phase, type |-> type, retryable |-> retryable]

\* faulty variant of classifySocksError: every failure is blamed on the proxy
classifySocksError_AllProxy(socksCode) ==
    SocksClass("proxy", "GENERAL_FAILURE", TRUE)

\* classifySocksError: codeMap[socksCode], or the entry for an unknown code
classifySocksError(socksCode) ==
    CASE socksCode = 0 -> SocksClass("none", "SUCCESS", FALSE)
      [] socksCode = 1 -> SocksClass("proxy", "GENERAL_FAILURE", TRUE)
      [] socksCode = 2 -> SocksClass("proxy", "RULESET_VIOLATION", FALSE)
      [] socksCode = 3 -> SocksClass("target", "NETWORK_UNREACHABLE", FALSE)
      [] socksCode = 4 -> SocksClass("target", "HOST_UNREACHABLE", FALSE)
      [] socksCode = 5 -> SocksClass("target", "CONNECTION_REFUSED", FALSE)
      [] socksCode = 6 -> SocksClass("target", "TTL_EXPIRED", FALSE)
      [] socksCode = 7 -> SocksClass("proxy", "COMMAND_NOT_SUPPORTED", FALSE)
      [] socksCode = 8 -> SocksClass("proxy", "ADDRESS_TYPE_NOT_SUPPORTED", FALSE)
      [] socksCode = 255 -> SocksClass("proxy", "NO_AUTH_METHODS", FALSE)
      [] OTHER -> SocksClass("unknown", "UNKNOWN_ERROR", TRUE)

\* classifySocksError(socksCode).phase
SocksPhase(socksCode) == classifySocksError(socksCode).phase

extractSocksCode(err) ==
    IF err.socksResponseCode # NoSocksCode THEN err.socksResponseCode
    ELSE err.messageCode

\* faulty variant of ProxyRejection: a failure without a SOCKS reply code is
\* blamed on the target
ProxyRejection_BlameTarget(err) ==
    Rejection(err.message, "SMTP_CONNECTION_FAILED", err.code, extractSocksCode(err),
              "target")

\* createProxyConnection: the .catch handler of the handshake race
ProxyRejection(err) ==
    LET socksCode == extractSocksCode(err)
        timedOut == \/ MessageIncludes(err.message, "timeout")
                    \/ MessageIncludes(err.message, "timed out")
        errorPhase == IF ~timedOut /\ socksCode # NoSocksCode
                      THEN SocksPhase(socksCode) ELSE "proxy"
        errorType == IF timedOut THEN "PROXY_HANDSHAKE_TIMEOUT"
                     ELSE IF socksCode # NoSocksCode
                     THEN IF errorPhase = "proxy" THEN "PROXY_AUTH_FAILED"
                          ELSE "SMTP_CONNECTION_FAILED"
                     ELSE "PROXY_CONNECTION_FAILED"
    IN Rejection(err.message, errorType, err.code, socksCode, errorPhase)

\* faulty variant of validateSmtpBanner: the code is not compared with 220
validateSmtpBanner_AnyCode(banner) ==
    IF banner = <<>> THEN [valid |-> FALSE, code |-> <<>>]
    ELSE LET trimmed == Trim(banner) IN
         IF ~(ThreeDigits(trimmed) /\ Len(trimmed) >= 4
               /\ trimmed[4] \in Whitespace \cup {"-"})
         THEN [valid |-> FALSE, code |-> <<>>]
         ELSE [valid |-> TRUE, code |-> <<SubSeq(trimmed, 1, 3)>>]

\* validateSmtpBanner: trimmed.match(/^(\d{3})([\s\-])(.*)/) and the code
\* compared with "220"; code <<>> is null
validateSmtpBanner(banner) ==
    IF banner = <<>> THEN [valid |-> FALSE, code |-> <<>>]
    ELSE LET trimmed == Trim(banner) IN
         IF ~(ThreeDigits(trimmed) /\ Len(trimmed) >= 4
               /\ trimmed[4] \in Whitespace \cup {"-"})
         THEN [valid |-> FALSE, code |-> <<>>]
         ELSE IF SubSeq(trimmed, 1, 3) # SMTP_BANNER_CODE
         THEN [valid |-> FALSE, code |-> <<SubSeq(trimmed, 1, 3)>>]
         ELSE [valid |-> TRUE, code |-> <<SubSeq(trimmed, 1, 3)>>]

\* the errors a socket emits
SocketErrors ==
    { SockError(<<"connect", "ECONNREFUSED">>, "ECONNREFUSED", NoSocksCode, NoSocksCode),
      SockError(<<"read", "ECONNRESET">>, "ECONNRESET", NoSocksCode, NoSocksCode),
      SockError(<<"socket", "hang", "up">>, "", NoSocksCode, NoSocksCode) }

\* the errors SocksClient.createConnection rejects with: the proxy cannot be
\* reached, the library's own timeout, or a SOCKS reply code given as
\* err.socksResponseCode or spelled in the message
SocksErrors ==
    { SockError(<<"connect", "ECONNREFUSED">>, "ECONNREFUSED", NoSocksCode, NoSocksCode),
      SockError(<<"Proxy", "connection", "timed out">>, "", NoSocksCode, NoSocksCode) }
      \cup { SockError(<<"Socks5", "proxy", "rejected", "connection">>, "", c, NoSocksCode) :
                c \in 1..9 \cup {255} }
      \cup { SockError(<<"rejected", "with", "code">>, "", NoSocksCode, c) :
                c \in {0, 4} }

\* the first chunks a server can send after the connection is made
BannerChunks ==
    { <<"2", "2", "0", " ", "o", "k", "\r", "\n">>,
      <<"2", "2", "0", "-", "a", "\r", "\n", "2", "2", "0", " ", "o", "k", "\r", "\n">>,
      <<"2", "2", "0", "\r", "\n">>,
      <<"2", "2", "0", " ", "\r", "\n">>,
      <<"5", "5", "4", " ", "n", "o", "\r", "\n">>,
      <<"2", "2">>,
      <<"\r", "\n">> }

\* no connection attempt was made yet
NoConn ==
    [pc |-> "idle", proxy |-> FALSE, socks |-> <<>>, cur |-> 0, socketVar |-> 0,
     dataBuffer |-> <<>>, err |-> Null, result |-> Null, ncalls |-> 0,
     abandoned |-> {}, late |-> {}]

IdleConn == conn = NoConn

\* connectToSmtp: the object returned on success
ConnSuccess(c, validation, banner) ==
    [c EXCEPT !.pc = "done",
              !.result = [success |-> TRUE, socket |-> c.socketVar,
                          banner |-> <<Trim(banner)>>, bannerCode |-> validation.code,
                          error |-> Null, proxyUsed |-> c.proxy]]

\* connectToSmtp: the object returned from the catch block (err is kept
\* beside it)
ConnFailure(c, err) ==
    [c EXCEPT !.pc = "done", !.err = err,
              !.result = [success |-> FALSE, socket |-> 0,
                          banner |-> <<>>, bannerCode |-> <<>>,
                          error |-> [message |-> err.message,
                                     type |-> IF err.type = "" THEN "UNKNOWN_ERROR"
                                              ELSE err.type,
                                     code |-> IF err.code = "" THEN "UNKNOWN" ELSE err.code,
                                     socksCode |-> IF err.socksCode \in {0, NoSocksCode}
                                                   THEN NoSocksCode ELSE err.socksCode,
                                     socksErrorPhase |-> err.socksErrorPhase],
                          proxyUsed |-> c.proxy]]

\* connectToSmtp: the catch block, entered with err; a socket the function
\* holds and that is not destroyed is closed first
ConnCatch(c, err) ==
    IF c.socketVar # 0 /\ ~c.socks[c.socketVar].destroyed
    THEN [c EXCEPT !.pc = "closing", !.err = err]
    ELSE ConnFailure(c, err)

\* socket.destroy() on the socket of this attempt
ConnDestroy(c) == [c EXCEPT !.socks[c.cur].destroyed = TRUE]

\* connectToSmtp(host, port, options) is called: the socket is created by
\* net.createConnection (which throws on options it cannot use) or by the
\* SOCKS library, and the function waits for the connection
ConnCall ==
    /\ conn.pc \in {"idle", "done", "released"}
    /\ conn.ncalls < MaxConnects
    /\ \E proxy \in BOOLEAN, usable \in BOOLEAN :
        LET c == [conn EXCEPT !.ncalls = @ + 1, !.proxy = proxy, !.cur = 0,
                              !.socketVar = 0, !.dataBuffer = <<>>,
                              !.err = Null, !.result = Null]
        IN conn' = IF ~proxy /\ ~usable
                   THEN ConnCatch(c, Rejection(<<"bad", "option">>, "INVALID_CONFIG",
                                               "", NoSocksCode, ""))
                   ELSE [c EXCEPT !.pc = IF proxy THEN "handshake" ELSE "connecting",
                                  !.socks = Append(@, [destroyed |-> FALSE]),
                                  !.cur = Len(conn.socks) + 1]
    /\ UNCHANGED <<parserVars, clientVars, netVars, verifierVars, dnsVars, toolVars>>

\* createDirectConnection: 'connect'; receiveBanner starts
DirectConnected ==
    /\ conn.pc = "connecting"
    /\ conn' = [conn EXCEPT !.pc = "banner", !.socketVar = conn.cur]
    /\ UNCHANGED <<parserVars, clientVars, netVars, verifierVars, dnsVars, toolVars>>

\* createDirectConnection: 'error'; the runtime destroys a socket that
\* emitted an error
DirectError ==
    /\ conn.pc = "connecting"
    /\ \E err \in SocketErrors :
        conn' = ConnCatch(ConnDestroy(conn),
                          Rejection(err.message, "SMTP_CONNECTION_FAILED",
                                    IF err.code = "" THEN "ECONNFAILED" ELSE err.code,
                                    NoSocksCode, ""))
    /\ UNCHANGED <<parserVars, clientVars, netVars, verifierVars, dnsVars, toolVars>>

\* createDirectConnection: 'timeout', the socket's idle timer; the handler
\* clears the backup timer and rejects, the socket is left as it is
DirectIdleTimeout ==
    /\ conn.pc = "connecting"
    /\ conn' = ConnCatch(conn, Rejection(<<"Direct", "connection", "timeout">>,
                                         "SOCKET_TIMEOUT", "ETIMEDOUT", NoSocksCode, ""))
    /\ UNCHANGED <<parserVars, clientVars, netVars, verifierVars, dnsVars, toolVars>>

\* createDirectConnection: the backup timer
DirectBackupTimer ==
    /\ conn.pc = "connecting"
    /\ conn' = ConnCatch(ConnDestroy(conn),
                         Rejection(<<"Connection", "timeout">>,
                                   "SOCKET_TIMEOUT", "ETIMEDOUT", NoSocksCode, ""))
    /\ UNCHANGED <<parserVars, clientVars, netVars, verifierVars, dnsVars, toolVars>>

\* createProxyConnection: the handshake completed, info.socket is the
\* connection to the SMTP server; receiveBanner starts
ProxyConnected ==
    /\ conn.pc = "handshake"
    /\ conn' = [conn EXCEPT !.pc = "banner", !.socketVar = conn.cur]
    /\ UNCHANGED <<parserVars, clientVars, netVars, verifierVars, dnsVars, toolVars>>

\* createProxyConnection: SocksClient.createConnection rejected; the library
\* closes the socket it had opened
ProxyFailed ==
    /\ conn.pc = "handshake"
    /\ \E err \in SocksErrors :
        conn' = ConnCatch(ConnDestroy(conn), ProxyRejection(err))
    /\ UNCHANGED <<parserVars, clientVars, netVars, verifierVars, dnsVars, toolVars>>

\* createProxyConnection: the handshake timer won the race; nothing stops
\* SocksClient.createConnection, whose attempt goes on with its socket
ProxyTimer ==
    /\ conn.pc = "handshake"
    /\ conn' = ConnCatch([conn EXCEPT !.abandoned = @ \cup {conn.cur}],
                         ProxyRejection(SockError(<<"SOCKS5", "proxy", "handshake", "timeout">>,
                                                  "", NoSocksCode, NoSocksCode)))
    /\ UNCHANGED <<parserVars, clientVars, netVars, verifierVars, dnsVars, toolVars>>

\* SocksClient.createConnection resolves after the timer won the race: the
\* .then handler of the race does not run for it, info.socket stays open
\* and nothing holds it
LateHandshakeDone ==
    /\ \E i \in conn.abandoned :
        conn' = [conn EXCEPT !.abandoned = @ \ {i}, !.late = @ \cup {i}]
    /\ UNCHANGED <<parserVars, clientVars, netVars, verifierVars, dnsVars, toolVars>>

\* SocksClient.createConnection rejects after the timer won the race: the
\* library closes the socket it had opened
LateHandshakeFailed ==
    /\ \E i \in conn.abandoned :
        conn' = [conn EXCEPT !.abandoned = @ \ {i}, !.socks[i].destroyed = TRUE]
    /\ UNCHANGED <<parserVars, clientVars, netVars, verifierVars, dnsVars, toolVars>>

\* receiveBanner: 'data', the first chunk is the banner
BannerData ==
    /\ conn.pc = "banner"
    /\ \E chunk \in BannerChunks :
        LET banner == Trim(chunk)
            validation == validateSmtpBanner(banner)
            c == [conn EXCEPT !.dataBuffer = chunk]
        IN conn' = IF validation.valid THEN ConnSuccess(c, validation, banner)
                   ELSE ConnCatch(c, Rejection(<<"Invalid", "SMTP", "banner">>,
                                                  "SMTP_BANNER_INVALID", "EBANNER_INVALID",
                                                  NoSocksCode, ""))
    /\ UNCHANGED <<parserVars, clientVars, netVars, verifierVars, dnsVars, toolVars>>

\* receiveBanner: 'error'
BannerError ==
    /\ conn.pc = "banner"
    /\ \E err \in SocketErrors :
        conn' = ConnCatch(ConnDestroy(conn),
                          Rejection(err.message, "SMTP_SOCKET_ERROR", err.code,
                                    NoSocksCode, ""))
    /\ UNCHANGED <<parserVars, clientVars, netVars, verifierVars, dnsVars, toolVars>>

\* receiveBanner: 'timeout' or the backup timer; both destroy the socket
BannerTimeout ==
    /\ conn.pc = "banner"
    /\ conn' = ConnCatch(ConnDestroy(conn),
                         Rejection(<<"SMTP", "banner", "timeout">>, "SMTP_BANNER_TIMEOUT",
                                   "EBANNER_TIMEOUT", NoSocksCode, ""))
    /\ UNCHANGED <<parserVars, clientVars, netVars, verifierVars, dnsVars, toolVars>>

\* connectToSmtp, catch block: await closeSocket(socket) resolved
ConnClosed ==
    /\ conn.pc = "closing"
    /\ conn' = ConnFailure(ConnDestroy(conn), conn.err)
    /\ UNCHANGED <<parserVars, clientVars, netVars, verifierVars, dnsVars, toolVars>>

\* index.js main: await closeSocket(result.socket) after a success
CallerClose ==
    /\ conn.pc = "done"
    /\ conn.result.success
    /\ conn' = [ConnDestroy(conn) EXCEPT !.pc = "released"]
    /\ UNCHANGED <<parserVars, clientVars, netVars, verifierVars, dnsVars, toolVars>>

-----------------------------------------------------------------------------
(* utils/mapper.js: formatOutput *)

UpperCase == <<"A", "B", "C", "D", "E", "F", "G", "H", "I", "J", "K", "L", "M", "N", "O", "P", "Q", "R", "S", "T", "U", "V", "W", "X", "Y", "Z">>

LowerCase == <<"a", "b", "c", "d", "e", "f", "g", "h", "i", "j", "k", "l", "m", "n", "o", "p", "q", "r", "s", "t", "u", "v", "w", "x", "y", "z">>

\* the lower-case form of a character (the patterns carry the i flag)
Lower(c) ==
    IF \E i \in 1..Len(UpperCase) : UpperCase[i] = c
    THEN LowerCase[CHOOSE i \in 1..Len(UpperCase) : UpperCase[i] = c]
    ELSE c

LowerText(t) == [i \in 1..Len(t) |-> Lower(t[i])]

\* PATTERNS.FULL_INBOX: the alternatives of the pattern
FULL_INBOX ==
    { <<"q", "u", "o", "t", "a">>,
      <<"f", "u", "l", "l">>,
      <<"i", "n", "s", "u", "f", "f", "i", "c", "i", "e", "n", "t", " ", "s", "t", "o", "r", "a", "g", "e">>,
      <<"s", "t", "o", "r", "a", "g", "e", " ", "e", "x", "c", "e", "e", "d", "e", "d">>,
      <<"l", "i", "m", "i", "t", " ", "e", "x", "c", "e", "e", "d", "e", "d">> }

\* PATTERNS.DISABLED: the alternatives of the pattern
DISABLED ==
    { <<"d", "i", "s", "a", "b", "l", "e", "d">>,
      <<"s", "u", "s", "p", "e", "n", "d", "e", "d">>,
      <<"i", "n", "a", "c", "t", "i", "v", "e">>,
      <<"d", "e", "a", "c", "t", "i", "v", "a", "t", "e", "d">>,
      <<"a", "c", "c", "o", "u", "n", "t", " ", "c", "l", "o", "s", "e", "d">>,
      <<"n", "o", "t", " ", "a", "c", "t", "i", "v", "e">> }

\* pattern.test(msg): some alternative occurs in msg, letter case ignored
PatternTest(pattern, msg) == \E alt \in pattern : IndexOf(LowerText(msg), alt) # 0

\* faulty variant of Truthy: the value is only compared with null
Truthy_NotNull(value) == value # <<>>

\* if (details.smtpCode): the value is neither null nor 0
Truthy(value) == value # <<>> /\ value[1] # 0

\* faulty variant of Deliverable: the rejection analysis is not applied
Deliverable_StatusOnly(status, full, disabled) == status \in {"VALID", "CATCH_ALL"}

\* is_deliverable: set from the status, then forced to false by a full-inbox
\* or a disabled match
Deliverable(status, full, disabled) ==
    IF full \/ disabled THEN FALSE ELSE status \in {"VALID", "CATCH_ALL"}

formatOutput(internalResult) ==
    LET code == internalResult.smtpCode
        msg == IF internalResult.smtpMessage = <<>> THEN <<>>
               ELSE internalResult.smtpMessage[1]
        full == /\ code \in {<<452>>, <<552>>, <<554>>}
                /\ PatternTest(FULL_INBOX, msg)
        disabled == code = <<550>> /\ PatternTest(DISABLED, msg)
    IN [can_connect_smtp |-> Truthy(code),
        is_deliverable |-> Deliverable(internalResult.status, full, disabled),
        is_catch_all |-> \/ internalResult.status = "CATCH_ALL"
                         \/ internalResult.catchAllActive,
        has_full_inbox |-> full,
        is_disabled |-> disabled]

\* formatOutput was not called yet
NoMapper == [pc |-> "idle", input |-> Null, output |-> Null]

IdleMapper == mapper = NoMapper

-----------------------------------------------------------------------------
(* bulk.js *)

\* main has not started
NoBulk == [pc |-> "idle"]

IdleBulk == bulk = NoBulk

IdleTools == IdleMapper /\ IdleBulk

-----------------------------------------------------------------------------
(* core/smtp-client.js: SmtpClient *)

SessionState == {"DISCONNECTED", "CONNECTED", "HELLO_SENT", "MAIL_FROM_SENT",
          "RCPT_TO_SENT", "QUIT_SENT"}

\* no client method is in flight
NoCall == [op |-> "none", at |-> "idle", cmd |-> "none"]

\* no client method has ended yet
NoRet == [op |-> "none", ok |-> TRUE, err |-> "", res |-> Null]

\* the server of a fresh connection owes no reply
NewServer == [owed |-> 0, silent |-> FALSE]

\* net.createConnection / SocksClient.createConnection: a fresh, open socket
NewSocket == [destroyed |-> FALSE, wire |-> <<>>]

\* this.socket && !this.socket.destroyed
SocketOpen == socket # 0 /\ ~socks[socket].destroyed

\* socket.destroy(), by the code or by the runtime after an I/O error
Destroy(ss, s) == [ss EXCEPT ![s].destroyed = TRUE]

\* socket.write(command): the bytes of the command go out on the socket
WriteBytes(ss, s, cmd) == [ss EXCEPT ![s].wire = Append(@, cmd)]

\* faulty variant of closeSocket: resolves without destroying the socket
closeSocket_NoDestroy(ss, s) == ss

\* closeSocket(socket): end(), then forceDestroy on 'end', 'close', 'error'
\* or after CLOSE_TIMEOUT; an already destroyed socket resolves at once
closeSocket(ss, s) ==
    IF s = 0 \/ ss[s].destroyed THEN ss ELSE Destroy(ss, s)

\* a client method returns res / throws an Error with message msg
Return(op, res) ==
    /\ ret' = [op |-> op, ok |-> TRUE, err |-> "", res |-> res]
    /\ call' = NoCall

Throw(op, msg) ==
    /\ ret' = [op |-> op, ok |-> FALSE, err |-> msg, res |-> Null]
    /\ call' = NoCall

\* faulty variant of RcptToAllowed: RCPT TO is let through right after the hello
RcptToAllowed_AfterHello(st) == st \in {"HELLO_SENT", "MAIL_FROM_SENT", "RCPT_TO_SENT"}

\* the state guards at the head of sendHello, sendMailFrom and sendRcptTo
HelloAllowed(st) == st = "CONNECTED"
MailFromAllowed(st) == st = "HELLO_SENT"
RcptToAllowed(st) == st \in {"MAIL_FROM_SENT", "RCPT_TO_SENT"}

\* the command a method writes first
FirstCommand(op, arg) ==
    CASE op = "sendHello" -> "EHLO"
      [] op = "sendMailFrom" -> "MAIL FROM"
      [] op = "sendRcptTo" -> IF arg = "nonce" THEN "RCPT TO nonce" ELSE "RCPT TO target"
      [] op = "quit" -> "QUIT"

\* A client method is called: it runs up to its first await.  connect()
\* awaits connectToSmtp; sendHello, sendMailFrom and sendRcptTo check the
\* state and then sleep before they write; quit() writes QUIT at once when
\* the socket is open and otherwise only resets the state.
Start(op, arg) ==
    /\ ncalls' = ncalls + 1
    /\ CASE op = "connect" ->
              /\ call' = [op |-> "connect", at |-> "connecting", cmd |-> "none"]
              /\ ret' = NoRet
              /\ UNCHANGED state
         [] op = "sendHello" ->
              IF ~HelloAllowed(state)
              THEN Throw(op, "Must connect before sending HELLO") /\ UNCHANGED state
              ELSE /\ call' = [op |-> op, at |-> "write", cmd |-> FirstCommand(op, arg)]
                   /\ ret' = NoRet
                   /\ UNCHANGED state
         [] op = "sendMailFrom" ->
              IF ~MailFromAllowed(state)
              THEN Throw(op, "Must send HELLO before MAIL FROM") /\ UNCHANGED state
              ELSE /\ call' = [op |-> op, at |-> "write", cmd |-> FirstCommand(op, arg)]
                   /\ ret' = NoRet
                   /\ UNCHANGED state
         [] op = "sendRcptTo" ->
              IF ~RcptToAllowed(state)
              THEN Throw(op, "Must send MAIL FROM before RCPT TO") /\ UNCHANGED state
              ELSE /\ call' = [op |-> op, at |-> "write", cmd |-> FirstCommand(op, arg)]
                   /\ ret' = NoRet
                   /\ UNCHANGED state
         [] op = "quit" ->
              IF SocketOpen
              THEN /\ call' = [op |-> op, at |-> "write", cmd |-> FirstCommand(op, arg)]
                   /\ ret' = NoRet
                   /\ UNCHANGED state
              ELSE Return(op, Null) /\ state' = "DISCONNECTED"

\* connectToSmtp failed: the error kinds it reports, directly or through a
\* proxy
ConnectErrors ==
    {"SMTP_CONNECTION_FAILED", "SOCKET_TIMEOUT", "SMTP_BANNER_TIMEOUT",
     "SMTP_BANNER_INVALID", "SMTP_SOCKET_ERROR", "INVALID_CONFIG"}
        \cup {ProxyRejection(e).type : e \in SocksErrors}

\* connect(): connectToSmtp resolved.  On success the client takes the socket
\* (banner received, no listener left on it); on failure it throws
\* result.error.
ConnectDone ==
    /\ call.at = "connecting"
    /\ \E outcome \in {"success"} \cup ConnectErrors :
         IF outcome = "success" /\ Len(socks) < MaxSockets
         THEN /\ socks' = Append(socks, NewSocket)
              /\ socket' = Len(socks) + 1
              /\ state' = "CONNECTED"
              /\ chunks' = <<>>
              /\ srv' = NewServer
              /\ idleFired' = FALSE
              /\ Return("connect", Null)
         ELSE /\ outcome # "success"
              /\ Throw("connect", outcome)
              /\ UNCHANGED <<socks, socket, state, chunks, srv, idleFired>>
    /\ UNCHANGED <<ncalls, verifierVars, parserVars, dnsVars, connVars, toolVars>>

\* the state after a command was written
StateAfterWrite(st, cmd) ==
    CASE cmd = "EHLO" -> "HELLO_SENT"
      [] cmd = "QUIT" -> "QUIT_SENT"
      [] OTHER -> st

\* _write(command), after the method's think-time sleep: throws when the
\* socket is missing or destroyed; else socket.write succeeds or calls back
\* with an error (the runtime destroys a socket whose write failed).
\* quit() swallows a failed write and goes on to closeSocket.
Write ==
    /\ call.at \in {"write", "write2"}
    /\ IF ~SocketOpen
       THEN /\ Throw(call.op, "Socket not connected")
            /\ UNCHANGED <<socks, state, srv>>
       ELSE \E ok \in BOOLEAN :
            IF ok
            THEN /\ socks' = WriteBytes(socks, socket, call.cmd)
                 /\ state' = StateAfterWrite(state, call.cmd)
                 /\ srv' = IF call.op = "quit" THEN srv
                           ELSE [srv EXCEPT !.owed = @ + 1]
                 /\ call' = [call EXCEPT !.at = IF call.op = "quit" THEN "close"
                                              ELSE IF call.at = "write" THEN "read"
                                              ELSE "read2"]
                 /\ UNCHANGED ret
            ELSE /\ socks' = Destroy(socks, socket)
                 /\ IF call.op = "quit"
                    THEN call' = [call EXCEPT !.at = "close"] /\ UNCHANGED ret
                    ELSE Throw(call.op, "write failed")
                 /\ UNCHANGED <<state, srv>>
    /\ UNCHANGED <<socket, ncalls, chunks, idleFired, verifierVars, parserVars, dnsVars, connVars, toolVars>>

\* a _readResponse is pending: its 'data' and 'error' listeners are attached
Reading == call.at \in {"read", "read2"}

\* _readResponse.onData: the chunk alone is parsed; an incomplete or invalid
\* chunk rejects the read
ReadResult(chunk) == parseSmtpResponse(chunk)

\* faulty variant of HeloFallback: every permanent failure falls back
HeloFallback_AnyPermanent(code) == code >= 500 /\ code < 600

\* sendHello: response.code >= 500 && response.code <= 502
HeloFallback(code) == code >= 500 /\ code <= 502

\* the socket emits 'data' while a _readResponse is pending: onData removes
\* the listeners and settles the read; the method goes on from its await
OnData ==
    /\ Reading
    /\ chunks # <<>>
    /\ SocketOpen
    /\ chunks' = Tail(chunks)
    /\ LET parsed == ReadResult(Head(chunks)) IN
       IF parsed = Null
       THEN Throw(call.op, "Empty or invalid SMTP response") /\ UNCHANGED state
       ELSE CASE call.op = "sendHello" ->
                   IF call.at = "read" /\ HeloFallback(parsed.code)
                   THEN /\ call' = [call EXCEPT !.at = "write2", !.cmd = "HELO"]
                        /\ UNCHANGED <<ret, state>>
                   ELSE IF parsed.classification # "SUCCESS"
                   THEN Throw(call.op, "Handshake failed") /\ UNCHANGED state
                   ELSE Return(call.op, parsed) /\ UNCHANGED state
              [] call.op = "sendMailFrom" ->
                   IF parsed.classification # "SUCCESS"
                   THEN Throw(call.op, "MAIL FROM failed") /\ UNCHANGED state
                   ELSE Return(call.op, parsed) /\ state' = "MAIL_FROM_SENT"
              [] call.op = "sendRcptTo" ->
                   Return(call.op, parsed) /\ state' = "RCPT_TO_SENT"
    /\ UNCHANGED <<socket, socks, ncalls, srv, idleFired, verifierVars, parserVars, dnsVars, connVars, toolVars>>

\* the socket emits 'data' while no listener is attached (the stream stays
\* flowing after the listeners were removed): the chunk is lost
DataLost ==
    /\ ~Reading
    /\ chunks # <<>>
    /\ SocketOpen
    /\ chunks' = Tail(chunks)
    /\ UNCHANGED <<clientVars, srv, idleFired, verifierVars, parserVars, dnsVars, connVars, toolVars>>

\* the socket emits 'error' while a _readResponse is pending: onError rejects
\* the read with the error; the runtime destroys the socket
OnError ==
    /\ Reading
    /\ SocketOpen
    /\ socks' = Destroy(socks, socket)
    /\ Throw(call.op, "ECONNRESET")
    /\ UNCHANGED <<state, socket, ncalls, netVars, verifierVars, parserVars, dnsVars, connVars, toolVars>>

\* the socket's idle timer (socket.setTimeout in createDirectConnection and
\* receiveBanner) emits 'timeout' on a silent connection; receiveBanner's
\* cleanup removed every 'timeout' listener and _readResponse adds none, so
\* nothing handles the event
IdleTimeout ==
    /\ Reading
    /\ SocketOpen
    /\ srv.silent
    /\ ~idleFired
    /\ idleFired' = TRUE
    /\ UNCHANGED <<clientVars, chunks, srv, verifierVars, parserVars, dnsVars, connVars, toolVars>>

\* quit(), after the QUIT write: closeSocket resolved, the state is reset
CloseDone ==
    /\ call.at = "close"
    /\ socks' = closeSocket(socks, socket)
    /\ state' = "DISCONNECTED"
    /\ Return("quit", Null)
    /\ UNCHANGED <<socket, ncalls, netVars, verifierVars, parserVars, dnsVars, connVars, toolVars>>

-----------------------------------------------------------------------------
(* The SMTP server *)

\* chunks the server sends, as bytes
Chunk250 == <<"2", "5", "0", "\n">>
Chunk354 == <<"3", "5", "4", "\n">>
Chunk450 == <<"4", "5", "0", "\n">>
Chunk502 == <<"5", "0", "2", "\n">>
Chunk600 == <<"6", "0", "0", "\n">>
Chunk250Cont == <<"2", "5", "0", "-", "a", "\n">>
ChunkCodeOnly == <<"2", "5", "0">>
ChunkTextRest == <<" ", "a", "\n">>

\* a reply is one chunk holding a whole response, or a response cut in two
\* chunks: after a continuation line, or between the code and the text of a
\* line
ServerReplies ==
    {<<Chunk250>>, <<Chunk354>>, <<Chunk450>>, <<Chunk502>>, <<Chunk600>>,
     <<Chunk250Cont, Chunk250>>, <<ChunkCodeOnly, ChunkTextRest>>}

\* the server answers the oldest command it has not answered
ServerReply ==
    /\ srv.owed > 0
    /\ ~srv.silent
    /\ \E r \in ServerReplies : chunks' = chunks \o r
    /\ srv' = [srv EXCEPT !.owed = @ - 1]
    /\ UNCHANGED <<clientVars, idleFired, verifierVars, parserVars, dnsVars, connVars, toolVars>>

\* the server keeps the connection open and never answers the command
ServerSilent ==
    /\ srv.owed > 0
    /\ ~srv.silent
    /\ srv' = [srv EXCEPT !.silent = TRUE]
    /\ UNCHANGED <<clientVars, chunks, idleFired, verifierVars, parserVars, dnsVars, connVars, toolVars>>

ClientSteps ==
    \/ ConnectDone
    \/ Write
    \/ OnData
    \/ DataLost
    \/ OnError
    \/ IdleTimeout
    \/ CloseDone
    \/ ServerReply
    \/ ServerSilent

-----------------------------------------------------------------------------
(* A caller that drives one SmtpClient with any sequence of calls, each
   awaited before the next *)

ClientOps == {<<"connect", "none">>, <<"sendHello", "none">>,
              <<"sendMailFrom", "none">>, <<"sendRcptTo", "nonce">>,
              <<"sendRcptTo", "target">>, <<"quit", "none">>}

IdleVerifier ==
    /\ pc = "none"
    /\ email = <<>>
    /\ results = Null
    /\ locals = Null

IdleParser ==
    /\ pbuf = <<>>
    /\ pres = NotRun

\* new SmtpClient(host, port, options)
NewClient ==
    /\ state = "DISCONNECTED"
    /\ socket = 0
    /\ socks = <<>>
    /\ call = NoCall
    /\ ret = NoRet
    /\ ncalls = 0
    /\ chunks = <<>>
    /\ srv = NewServer
    /\ idleFired = FALSE

ClientInit == NewClient /\ IdleVerifier /\ IdleParser /\ IdleDns /\ IdleConn /\ IdleTools

ClientCall ==
    /\ call = NoCall
    /\ ncalls < MaxCalls
    /\ \E c \in ClientOps : Start(c[1], c[2])
    /\ UNCHANGED <<socket, socks, netVars, verifierVars, parserVars, dnsVars, connVars, toolVars>>

ClientNext == ClientCall \/ ClientSteps

ClientSpec == ClientInit /\ [][ClientNext]_vars

-----------------------------------------------------------------------------
(* core/verifier.js: verifyEmail *)

STATUS == {"VALID", "INVALID", "CATCH_ALL", "UNKNOWN", "RISKY"}

\* the addresses verifyEmail is called with
Emails == {<<"a", "@", "b">>, <<"a", "b">>, <<"@", "b">>, <<"a", "@">>,
           <<"a", "@", "b", "@", "c">>, <<>>}

\* email.includes("@")
Includes(s, c) == \E i \in 1..Len(s) : s[i] = c

\* email.split("@")
RECURSIVE SplitAtFrom(_, _, _)
SplitAtFrom(s, i, cur) ==
    IF i > Len(s) THEN <<cur>>
    ELSE IF s[i] = "@" THEN <<cur>> \o SplitAtFrom(s, i + 1, <<>>)
    ELSE SplitAtFrom(s, i + 1, Append(cur, s[i]))

SplitAt(s) == SplitAtFrom(s, 1, <<>>)

\* what getMXRecords resolves to: records, or a classified failure
MxResults ==
    {[success |-> TRUE, recordCount |-> n, errType |-> "none"] : n \in 1..2}
    \cup {[success |-> FALSE, recordCount |-> 0, errType |-> t] :
            t \in {"HARD_FAIL", "INVALID_DOMAIN", "SOFT_FAIL"}}

\* the results object verifyEmail starts from; <<>> stands for null
NewResults ==
    [domain |-> <<>>, mx |-> <<>>, status |-> "UNKNOWN", reason |-> <<>>,
     smtpCode |-> <<>>, smtpMessage |-> <<>>, catchAllActive |-> FALSE,
     greylisted |-> FALSE]

NewLocals ==
    [mxResult |-> Null, nonceRes |-> Null, targetRes |-> Null, smtpErr |-> <<>>]

\* faulty variant of RcptOrder: the target is sent before the probe
RcptOrder_TargetFirst == <<"target", "nonce">>

\* the recipients of the two RCPT TO commands, in the order they are sent
RcptOrder == <<"nonce", "target">>

\* step 4: what the reply to the catch-all probe sets
AfterProbe(res, nonceRes) ==
    IF nonceRes.classification = "SUCCESS"
    THEN [res EXCEPT !.catchAllActive = TRUE]
    ELSE IF nonceRes.classification = "TRANSIENT_FAIL"
    THEN [res EXCEPT !.greylisted = TRUE]
    ELSE res

\* faulty variant of Classify: a greylisted probe is not looked at
Classify_IgnoresGreylisted(res, targetRes) ==
    LET r == [res EXCEPT !.smtpCode = <<targetRes.code>>,
                         !.smtpMessage = <<targetRes.message>>] IN
    IF targetRes.classification = "TRANSIENT_FAIL"
    THEN [r EXCEPT !.status = "UNKNOWN",
                   !.reason = <<"Greylisted (Try again later)">>]
    ELSE IF targetRes.classification = "PERMANENT_FAIL"
    THEN [r EXCEPT !.status = "INVALID", !.reason = <<"Recipient rejected">>]
    ELSE IF targetRes.classification = "SUCCESS"
    THEN IF r.catchAllActive
         THEN [r EXCEPT !.status = "CATCH_ALL", !.reason = <<"Domain is Catch-All">>]
         ELSE [r EXCEPT !.status = "VALID",
                        !.reason = <<"Recipient accepted (and domain not Catch-All)">>]
    ELSE r

\* faulty variant of Classify: the two branches of the catch-all test swapped
Classify_SwappedCatchAll(res, targetRes) ==
    LET r == [res EXCEPT !.smtpCode = <<targetRes.code>>,
                         !.smtpMessage = <<targetRes.message>>] IN
    IF r.greylisted \/ targetRes.classification = "TRANSIENT_FAIL"
    THEN [r EXCEPT !.status = "UNKNOWN",
                   !.reason = <<"Greylisted (Try again later)">>]
    ELSE IF targetRes.classification = "PERMANENT_FAIL"
    THEN [r EXCEPT !.status = "INVALID", !.reason = <<"Recipient rejected">>]
    ELSE IF targetRes.classification = "SUCCESS"
    THEN IF ~r.catchAllActive
         THEN [r EXCEPT !.status = "CATCH_ALL", !.reason = <<"Domain is Catch-All">>]
         ELSE [r EXCEPT !.status = "VALID",
                        !.reason = <<"Recipient accepted (and domain not Catch-All)">>]
    ELSE r

\* steps 5 and 6: the target reply is recorded and the verdict is decided
Classify(res, targetRes) ==
    LET r == [res EXCEPT !.smtpCode = <<targetRes.code>>,
                         !.smtpMessage = <<targetRes.message>>] IN
    IF r.greylisted \/ targetRes.classification = "TRANSIENT_FAIL"
    THEN [r EXCEPT !.status = "UNKNOWN",
                   !.reason = <<"Greylisted (Try again later)">>]
    ELSE IF targetRes.classification = "PERMANENT_FAIL"
    THEN [r EXCEPT !.status = "INVALID", !.reason = <<"Recipient rejected">>]
    ELSE IF targetRes.classification = "SUCCESS"
    THEN IF r.catchAllActive
         THEN [r EXCEPT !.status = "CATCH_ALL", !.reason = <<"Domain is Catch-All">>]
         ELSE [r EXCEPT !.status = "VALID",
                        !.reason = <<"Recipient accepted (and domain not Catch-All)">>]
    ELSE r

\* catch (smtpErr)
CatchSmtpErr(res, message) == [res EXCEPT !.reason = <<"SMTP Error: ", message>>]

\* faulty variant of NoMx: only an empty record list counts, not a failure
NoMx_OnlyEmptyList(mxResult) == mxResult.recordCount = 0 /\ mxResult.success

\* !mxResult.success || mxResult.records.length === 0
NoMx(mxResult) == ~mxResult.success \/ mxResult.recordCount = 0

Init ==
    /\ NewClient
    /\ IdleParser
    /\ IdleDns
    /\ IdleConn
    /\ IdleTools
    /\ pc = "init"
    /\ email = <<>>
    /\ results = NewResults
    /\ locals = NewLocals

\* step 1: the syntax gate
SyntaxCheck ==
    /\ pc = "init"
    /\ \E e \in Emails :
         /\ email' = e
         /\ IF e = <<>> \/ ~Includes(e, "@")
            THEN /\ results' = [results EXCEPT !.status = "INVALID",
                                               !.reason = <<"Invalid email syntax">>]
                 /\ pc' = "returned"
            ELSE LET user == SplitAt(e)[1]
                     domain == SplitAt(e)[2]
                 IN IF user = <<>> \/ domain = <<>>
                    THEN /\ results' = [results EXCEPT !.status = "INVALID",
                                                       !.reason = <<"Invalid email syntax">>]
                         /\ pc' = "returned"
                    ELSE /\ results' = [results EXCEPT !.domain = domain]
                         /\ pc' = "dns"
    /\ UNCHANGED <<clientVars, netVars, locals, parserVars, dnsVars, connVars, toolVars>>

\* step 2: getMXRecords resolved; without records the verdict is INVALID,
\* else a client is made for records[0] and connect() is called
DnsLookup ==
    /\ pc = "dns"
    /\ \E mxResult \in MxResults :
         /\ locals' = [locals EXCEPT !.mxResult = mxResult]
         /\ IF NoMx(mxResult)
            THEN /\ results' = [results EXCEPT !.status = "INVALID",
                                               !.reason = <<"No MX records found">>]
                 /\ pc' = "returned"
                 /\ UNCHANGED <<state, call, ret, ncalls>>
            ELSE /\ results' = [results EXCEPT !.mx = <<"mx">>]
                 /\ pc' = "connect"
                 /\ Start("connect", "none")
    /\ UNCHANGED <<socket, socks, netVars, email, parserVars, dnsVars, connVars, toolVars>>

\* steps 3 to 6: the client method verifyEmail awaited has settled.  A throw
\* is caught (catch smtpErr), a return leads to the next call; after the
\* target reply, and after a throw, the finally block calls quit().
AwaitClient ==
    /\ pc \in {"connect", "hello", "mailfrom", "probe", "target"}
    /\ call = NoCall
    /\ IF ~ret.ok
       THEN /\ results' = CatchSmtpErr(results, ret.err)
            /\ locals' = [locals EXCEPT !.smtpErr = <<ret.err>>]
            /\ pc' = "quit"
            /\ Start("quit", "none")
       ELSE CASE pc = "connect" ->
                   /\ pc' = "hello"
                   /\ Start("sendHello", "none")
                   /\ UNCHANGED <<results, locals>>
              [] pc = "hello" ->
                   /\ pc' = "mailfrom"
                   /\ Start("sendMailFrom", "none")
                   /\ UNCHANGED <<results, locals>>
              [] pc = "mailfrom" ->
                   /\ pc' = "probe"
                   /\ Start("sendRcptTo", RcptOrder[1])
                   /\ UNCHANGED <<results, locals>>
              [] pc = "probe" ->
                   /\ locals' = [locals EXCEPT !.nonceRes = ret.res]
                   /\ results' = AfterProbe(results, ret.res)
                   /\ pc' = "target"
                   /\ Start("sendRcptTo", RcptOrder[2])
              [] pc = "target" ->
                   /\ locals' = [locals EXCEPT !.targetRes = ret.res]
                   /\ results' = Classify(results, ret.res)
                   /\ pc' = "quit"
                   /\ Start("quit", "none")
    /\ UNCHANGED <<socket, socks, netVars, email, parserVars, dnsVars, connVars, toolVars>>

\* quit() resolved: return results
ReturnResults ==
    /\ pc = "quit"
    /\ call = NoCall
    /\ pc' = "returned"
    /\ UNCHANGED <<clientVars, netVars, email, results, locals, parserVars, dnsVars, connVars, toolVars>>

Next ==
    \/ SyntaxCheck
    \/ DnsLookup
    \/ AwaitClient
    \/ ReturnResults
    \/ ClientSteps

Spec == Init /\ [][Next]_vars

-----------------------------------------------------------------------------
(* Parser harness: buffers are built token by token and parsed. *)

\* the pieces buffers are made of: a reply code, a lone digit, an enhanced
\* status code, the two separators, a letter and the terminator bytes
Tokens == {<<"2", "5", "0">>, <<"5">>, <<"5", ".", "1", ".", "1">>, <<"-">>, <<" ">>,
           <<"a">>, <<"\n">>, <<"\r">>}

RECURSIVE TokenCount(_)
TokenCount(buf) ==
    IF buf = <<>> THEN 0
    ELSE IF Len(buf) >= 3 /\ SubSeq(buf, 1, 3) = <<"2", "5", "0">>
         THEN 1 + TokenCount(SubSeq(buf, 4, Len(buf)))
    ELSE IF Len(buf) >= 5 /\ SubSeq(buf, 1, 5) = <<"5", ".", "1", ".", "1">>
         THEN 1 + TokenCount(SubSeq(buf, 6, Len(buf)))
    ELSE 1 + TokenCount(Tail(buf))

ParserInit == IdleParser /\ NewClient /\ IdleVerifier /\ IdleDns /\ IdleConn /\ IdleTools

\* one more token arrives in the buffer
PAppend ==
    /\ TokenCount(pbuf) < MaxTokens
    /\ \E t \in Tokens : pbuf' = pbuf \o t
    /\ pres' = NotRun
    /\ UNCHANGED <<clientVars, netVars, verifierVars, dnsVars, connVars, toolVars>>

\* test-parser.js: result = parseSmtpResponse(test.raw)
PParse ==
    /\ pres = NotRun
    /\ pres' = parseSmtpResponse(pbuf)
    /\ UNCHANGED <<pbuf, clientVars, netVars, verifierVars, dnsVars, connVars, toolVars>>

ParserNext == PAppend \/ PParse

ParserSpec == ParserInit /\ [][ParserNext]_vars

-----------------------------------------------------------------------------
(* Fairness: the event loop runs every continuation that is ready and fires
   every timer that is due.  Nothing is assumed of the server or of the
   network: a reply, a lost connection may never come. *)

ProgramSteps ==
    \/ SyntaxCheck
    \/ DnsLookup
    \/ AwaitClient
    \/ ReturnResults
    \/ ConnectDone
    \/ Write
    \/ OnData
    \/ DataLost
    \/ IdleTimeout
    \/ CloseDone

FairSpec == Init /\ [][Next]_vars /\ WF_vars(ProgramSteps)

-----------------------------------------------------------------------------
(* MX resolution on its own: one call of getMXRecords, the resolvers          *)
(* answering each query in any of the ways ResolverOutcomes lists.            *)

DnsInit == IdleDns /\ IdleConn /\ IdleParser /\ NewClient /\ IdleVerifier /\ IdleTools

DnsNext == GetMxCall \/ QueryDone \/ BackoffDone

DnsSpec == DnsInit /\ [][DnsNext]_vars

-----------------------------------------------------------------------------
(* connectToSmtp on its own, called as index.js calls it: directly or       *)
(* through a proxy, the network answering in any of the ways above.         *)

ConnInit == IdleConn /\ IdleDns /\ IdleParser /\ NewClient /\ IdleVerifier /\ IdleTools

ConnNext ==
    \/ ConnCall
    \/ DirectConnected \/ DirectError \/ DirectIdleTimeout \/ DirectBackupTimer
    \/ ProxyConnected \/ ProxyFailed \/ ProxyTimer
    \/ LateHandshakeDone \/ LateHandshakeFailed
    \/ BannerData \/ BannerError \/ BannerTimeout
    \/ ConnClosed \/ CallerClose

ConnSpec == ConnInit /\ [][ConnNext]_vars

-----------------------------------------------------------------------------
(* formatOutput on its own, given the verdicts verifyEmail builds from a     *)
(* target reply and verdicts with any status, code and message.              *)

\* the reply codes, as the parser extracts them from three digits
ReplyCodeTexts == { <<"0", "0", "0">>, <<"2", "5", "0">>, <<"4", "5", "2">>, <<"5", "5", "0">>, <<"5", "5", "2">>, <<"5", "5", "4">> }

\* reply texts
ReplyMessages ==
    { <<"M", "a", "i", "l", "b", "o", "x", " ", "F", "U", "L", "L">>,
      <<"o", "v", "e", "r", " ", "q", "u", "o", "t", "a">>,
      <<"u", "s", "e", "r", " ", "d", "i", "s", "a", "b", "l", "e", "d">>,
      <<"A", "c", "c", "o", "u", "n", "t", " ", "C", "l", "o", "s", "e", "d">>,
      <<"o", "k">> }

\* verdicts with any status, with no target reply or with any code and text
AnyVerdicts ==
    { [NewResults EXCEPT !.status = st, !.smtpCode = code, !.smtpMessage = msg,
                         !.catchAllActive = ca] :
        st \in STATUS,
        code \in {<<>>} \cup {<<ParseCode(t)>> : t \in ReplyCodeTexts},
        msg \in {<<>>} \cup {<<m>> : m \in ReplyMessages},
        ca \in BOOLEAN }

\* the target replies of a conversation that got as far as the target
TargetReplies ==
    { <<"2", "5", "0", " ", "o", "k", "\r", "\n">>,
      <<"0", "0", "0", " ", "o", "k", "\r", "\n">>,
      <<"5", "5", "2", " ", "M", "a", "i", "l", "b", "o", "x", " ", "F", "U", "L", "L", "\r", "\n">>,
      <<"5", "5", "0", " ", "u", "s", "e", "r", " ", "d", "i", "s", "a", "b", "l", "e", "d", "\r", "\n">>,
      <<"4", "5", "0", " ", "l", "a", "t", "e", "r", "\r", "\n">> }

\* verdicts as verifyEmail builds them once the target replied, the probe
\* having been answered with any reply of TargetReplies
VerifierVerdicts ==
    { Classify(AfterProbe(NewResults, parseSmtpResponse(probe)), parseSmtpResponse(target)) :
        probe \in TargetReplies, target \in TargetReplies }

MapperInit == IdleTools /\ IdleConn /\ IdleDns /\ IdleParser /\ NewClient /\ IdleVerifier

\* index.js main: jsonOutput = formatOutput(internalResult)
FormatVerdict ==
    /\ mapper.pc = "idle"
    /\ \E v \in AnyVerdicts \cup VerifierVerdicts :
        mapper' = [pc |-> "done", input |-> v, output |-> formatOutput(v)]
    /\ UNCHANGED <<parserVars, clientVars, netVars, verifierVars, dnsVars, connVars, bulk>>

MapperNext == FormatVerdict

MapperSpec == MapperInit /\ [][MapperNext]_vars

-----------------------------------------------------------------------------
(* bulk.js: main and processBatch.  The file is the list raw.split("\n")    *)
(* gives.  A batch is the promises of processBatch: each settles on its own, *)
(* Promise.all waits for all of them and keeps the order of the chunk, so    *)
(* the state counts the promises that have not settled yet.                  *)

BATCH_SIZE == 20

\* the lines input files are made of: kept, kept with blanks around it,
\* dropped by the filter, kept and refused by the syntax gate
LinePool == << <<"a", "@", "b">>, <<" ", "a", "@", "b", " ">>, <<"a", "b">>, <<"a", "@">> >>

FileLengths == {0, 2, 27, 28, 55}

InputFiles ==
    { [k \in 1..n |-> LinePool[((k + shift) % Len(LinePool)) + 1]] :
        n \in FileLengths, shift \in 0..(Len(LinePool) - 1) }

\* raw.split("\n").filter((e) => e.trim().includes("@"))
KeptLines(file) == SelectSeq(file, LAMBDA e : Includes(Trim(e), "@"))

Min(a, b) == IF a < b THEN a ELSE b

\* faulty variant of Chunk: everything that is left is one batch
Chunk_AllTheRest(allEmails, i) == SubSeq(allEmails, i + 1, Len(allEmails))

\* allEmails.slice(i, i + BATCH_SIZE)
Chunk(allEmails, i) == SubSeq(allEmails, i + 1, Min(i + BATCH_SIZE, Len(allEmails)))

\* verifyEmail on a trimmed line: the syntax gate's verdict, or the verdict
\* the conversation ended with
VerdictOf(address, verdict) ==
    IF \/ address = <<>>
       \/ ~Includes(address, "@")
       \/ SplitAt(address)[1] = <<>>
       \/ SplitAt(address)[2] = <<>>
    THEN [NewResults EXCEPT !.status = "INVALID", !.reason = <<"Invalid email syntax">>]
    ELSE verdict

\* the value one promise of processBatch resolves to
BatchRecord(line, threw, verdict) ==
    IF threw THEN [email |-> line, error |-> "e.message"]
    ELSE [email |-> line] @@ formatOutput(VerdictOf(Trim(line), verdict))

\* processBatch(chunk) resolved: the records in the order of the chunk
BatchResults(b) ==
    LET chunk == Chunk(b.allEmails, b.i)
    IN [k \in 1..Len(chunk) |-> BatchRecord(chunk[k], (b.i + k) \in b.throws, b.verdict)]

\* the loop of main at offset i: the next batch is started, or the results
\* are written
LoopAt(b, i) ==
    IF i < Len(b.allEmails)
    THEN [b EXCEPT !.pc = "batch", !.i = i,
                   !.pending = Len(Chunk(b.allEmails, i)),
                   !.started = b.started + Len(Chunk(b.allEmails, i))]
    ELSE [b EXCEPT !.pc = "done", !.i = i, !.written = <<b.finalResults>>]

\* the verifications the run makes throw: none, the first, the last of the
\* first batch
ThrowSets == {{}, {1}, {BATCH_SIZE}}

BulkInit == IdleTools /\ IdleConn /\ IdleDns /\ IdleParser /\ NewClient /\ IdleVerifier

\* main up to its first await: the file is read and filtered and the first
\* batch is started
BulkLoad ==
    /\ bulk.pc = "idle"
    /\ \E file \in InputFiles, throws \in ThrowSets, verdict \in VerifierVerdicts :
         bulk' = LoopAt([pc |-> "idle", file |-> file, allEmails |-> KeptLines(file),
                         throws |-> throws, verdict |-> verdict, i |-> 0,
                         pending |-> 0, started |-> 0, settled |-> 0,
                         finalResults |-> <<>>, written |-> <<>>], 0)
    /\ UNCHANGED <<parserVars, clientVars, netVars, verifierVars, dnsVars, connVars, mapper>>

\* one promise of the batch settles: verifyEmail returned and the record was
\* built, or it threw and the catch built the error record
VerificationSettled ==
    /\ bulk.pc = "batch"
    /\ bulk.pending > 0
    /\ bulk' = [bulk EXCEPT !.pending = @ - 1, !.settled = @ + 1]
    /\ UNCHANGED <<parserVars, clientVars, netVars, verifierVars, dnsVars, connVars, mapper>>

\* Promise.all resolved: the records are pushed and the loop goes on
BatchDone ==
    /\ bulk.pc = "batch"
    /\ bulk.pending = 0
    /\ bulk' = LoopAt([bulk EXCEPT !.finalResults = @ \o BatchResults(bulk)],
                      bulk.i + BATCH_SIZE)
    /\ UNCHANGED <<parserVars, clientVars, netVars, verifierVars, dnsVars, connVars, mapper>>

BulkNext == BulkLoad \/ VerificationSettled \/ BatchDone

BulkSpec == BulkInit /\ [][BulkNext]_vars

-----------------------------------------------------------------------------
(* Claims *)

Returned == pc = "returned"

\* the wire of every socket the client opened
Wires == {socks[i].wire : i \in DOMAIN socks}

\* C1's table of the verdict, by the class of the probe reply and of the
\* target reply
VerdictTable(probe, target) ==
    IF probe = "TRANSIENT_FAIL" \/ target = "TRANSIENT_FAIL" THEN "UNKNOWN"
    ELSE IF target = "PERMANENT_FAIL" THEN "INVALID"
    ELSE IF target = "SUCCESS" /\ probe = "SUCCESS" THEN "CATCH_ALL"
    ELSE IF target = "SUCCESS" /\ probe # "SUCCESS" THEN "VALID"
    ELSE "UNKNOWN"

\* C1: once both RCPT TO replies were received, the status of the verdict is
\* the table's value for the class of the probe reply and the class of the
\* target reply, whatever the two classes are.
C1_StatusByReplyClasses ==
    (pc \in {"quit", "returned"} /\ locals.targetRes # Null) =>
        /\ locals.nonceRes # Null
        /\ locals.nonceRes.classification \in CLASSIFICATION
        /\ locals.targetRes.classification \in CLASSIFICATION
        /\ results.status = VerdictTable(locals.nonceRes.classification,
                                         locals.targetRes.classification)

\* C1 witness: a verdict returned after a PROTOCOL_ERROR probe reply and a
\* SUCCESS target reply
C1_Witness ==
    /\ Returned
    /\ locals.targetRes # Null
    /\ locals.nonceRes.classification = "PROTOCOL_ERROR"
    /\ locals.targetRes.classification = "SUCCESS"
    /\ results.status = "VALID"

\* C2: in a returned verdict, CATCH_ALL comes with catchAllActive = true and
\* VALID with catchAllActive = false.
C2_CatchAllAgreesWithStatus ==
    Returned =>
        /\ results.status = "CATCH_ALL" => results.catchAllActive
        /\ results.status = "VALID" => ~results.catchAllActive

\* C2 witness: a returned CATCH_ALL verdict
C2_Witness ==
    Returned /\ results.status = "CATCH_ALL" /\ results.catchAllActive

\* C3 (as claimed): every returned verdict has one of the five status values
\* and a reason that is not null.
C3_ReasonPopulated ==
    Returned => results.status \in STATUS /\ results.reason # <<>>

\* C4: a failed MX resolution gives INVALID "No MX records found"; a client
\* method that threw (connection, handshake, read or write) gives UNKNOWN
\* with the error's message in the reason and smtpCode null.
C4_FailuresBecomeVerdicts ==
    Returned =>
        /\ (locals.mxResult # Null /\ ~locals.mxResult.success) =>
              /\ results.status = "INVALID"
              /\ results.reason = <<"No MX records found">>
              /\ socks = <<>>
        /\ locals.smtpErr # <<>> =>
              /\ results.status = "UNKNOWN"
              /\ results.reason = <<"SMTP Error: ", locals.smtpErr[1]>>
              /\ results.smtpCode = <<>>

\* C4 witness: a verdict returned after a socket error during a read
C4_Witness ==
    /\ Returned
    /\ locals.smtpErr = <<"ECONNRESET">>
    /\ results.status = "UNKNOWN"

\* C5 (as claimed): when the server never replies to a command, the read
\* ends and verifyEmail eventually returns.
C5_SilentServerTerminates ==
    (srv.silent /\ Reading) ~> Returned

\* C6: when verifyEmail has returned, every socket its client obtained is
\* destroyed.
C6_SocketReleased ==
    Returned => \A i \in DOMAIN socks : socks[i].destroyed

\* C6 witness: a verdict returned after the whole conversation, the
\* socket being destroyed
C6_Witness ==
    /\ Returned
    /\ socks # <<>>
    /\ locals.targetRes # Null
    /\ socks[1].destroyed

Stage(cmd) ==
    CASE cmd = "EHLO" -> 1
      [] cmd = "HELO" -> 2
      [] cmd = "MAIL FROM" -> 3
      [] cmd \in {"RCPT TO nonce", "RCPT TO target"} -> 4
      [] cmd = "QUIT" -> 5

Count(w, cmd) == Cardinality({i \in 1..Len(w) : w[i] = cmd})

\* the commands of w follow the stages EHLO, HELO, MAIL FROM, RCPT TO, QUIT;
\* QUIT may end the session at any stage
StagesInOrder(w) ==
    /\ \A i, j \in 1..Len(w) : i < j => Stage(w[i]) <= Stage(w[j])
    /\ Count(w, "EHLO") <= 1 /\ Count(w, "HELO") <= 1 /\ Count(w, "QUIT") <= 1
    /\ (w # <<>> /\ w[1] # "QUIT") => w[1] = "EHLO"
    /\ (\E i \in 1..Len(w) : Stage(w[i]) = 4) => Count(w, "MAIL FROM") >= 1

\* the method called in this step, if a method is called in it
CalledOp == IF call'.op # "none" THEN call'.op ELSE ret'.op

\* a call outside the method's states throws and leaves every socket as it is
RejectedOutOfState ==
    (ncalls' = ncalls + 1 /\
       \/ CalledOp = "sendHello" /\ state # "CONNECTED"
       \/ CalledOp = "sendMailFrom" /\ state # "HELLO_SENT"
       \/ CalledOp = "sendRcptTo" /\ state \notin {"MAIL_FROM_SENT", "RCPT_TO_SENT"})
    => (call' = NoCall /\ ~ret'.ok /\ socks' = socks /\ state' = state)

\* C8 (as claimed): calls outside their states throw and write nothing, and
\* on every socket the commands are EHLO, optionally HELO, one MAIL FROM,
\* RCPT TOs, QUIT, in this order.
C8_StrictlyLinear ==
    [][/\ RejectedOutOfState
       /\ \A w \in Wires' : StagesInOrder(w) /\ Count(w, "MAIL FROM") <= 1]_vars

\* C8 (amended): as claimed, but MAIL FROM may be written again while the
\* state is still HELLO_SENT, that is after a MAIL FROM that did not succeed.
C8_LinearWithMailRetry ==
    [][/\ RejectedOutOfState
       /\ \A w \in Wires' : StagesInOrder(w)
       /\ \A i \in DOMAIN socks :
            socks'[i].wire = Append(socks[i].wire, "MAIL FROM") => state = "HELLO_SENT"]_vars

\* C8 witness: EHLO, a MAIL FROM that failed, a second MAIL FROM, and then a
\* sendHello that was rejected
C8_Witness ==
    /\ socks # <<>>
    /\ socks[1].wire = <<"EHLO", "MAIL FROM", "MAIL FROM">>
    /\ call = NoCall
    /\ ret.op = "sendHello"
    /\ ret.err = "Must connect before sending HELLO"

\* C9 (as claimed): a chunk that the parser finds incomplete does not end the
\* pending read: the session keeps reading.
C9_KeepsAccumulating ==
    [][(/\ Reading
        /\ SocketOpen
        /\ chunks # <<>>
        /\ chunks' = Tail(chunks)
        /\ parseSmtpResponse(Head(chunks)) = Null)
       => (Reading' /\ call'.op = call.op)]_vars

\* ---- C10

\* the buffer without the line terminators (LF, CRLF) at its end
RECURSIVE StripTerminators(_)
StripTerminators(buf) ==
    IF buf # <<>> /\ buf[Len(buf)] = "\n"
    THEN LET b == SubSeq(buf, 1, Len(buf) - 1) IN
         IF b # <<>> /\ b[Len(b)] = "\r"
         THEN StripTerminators(SubSeq(b, 1, Len(b) - 1))
         ELSE StripTerminators(b)
    ELSE buf

\* the last non-empty line of the buffer, <<>> when it has none
LastNonEmptyLine(buf) ==
    LET b == StripTerminators(buf)
        nl == {i \in 1..Len(b) : b[i] = "\n"}
        start == IF nl = {} THEN 1 ELSE (CHOOSE i \in nl : \A k \in nl : k <= i) + 1
    IN SubSeq(b, start, Len(b))

\* three digits, then the end of the line or a space
FinalLine(l) ==
    /\ Len(l) >= 3
    /\ \A i \in 1..3 : l[i] \in Digits
    /\ Len(l) > 3 => l[4] = " "

\* C10: parseSmtpResponse returns a response exactly when the last non-empty
\* line of the buffer is three digits followed by the end of the line or by
\* a space; the response then holds the lines up to that line and its code.
\* The empty buffer, a last line NNN-... and a malformed last line give null.
C10_ParsedIffFinalLine ==
    pres # NotRun =>
        LET last == LastNonEmptyLine(pbuf) IN
        /\ (pres # Null) <=> FinalLine(last)
        /\ pbuf = <<>> => pres = Null
        /\ (Len(last) >= 4 /\ last[4] = "-") => pres = Null
        /\ pres # Null =>
              /\ pres.lines[Len(pres.lines)] = last
              /\ pres.code = 100 * DigitVal(last[1]) + 10 * DigitVal(last[2])
                                + DigitVal(last[3])

\* C10 witness: a two-line response, a continuation line and a final line,
\* was parsed
C10_Witness ==
    /\ pres # NotRun
    /\ pres # Null
    /\ Len(pres.lines) = 2
    /\ pres.lines[1] = <<"2", "5", "0", "-", "a">>

-----------------------------------------------------------------------------
(* Claims about the parser's message and enhanced code *)

\* joining lines with CRLF, each line (the last one too) ending with CRLF
RECURSIVE SerializeFrom(_, _)
SerializeFrom(lines, i) ==
    IF i > Len(lines) THEN <<>>
    ELSE lines[i] \o <<"\r", "\n">> \o SerializeFrom(lines, i + 1)

Serialize(lines) == SerializeFrom(lines, 1)

Parsed == pres # NotRun /\ pres # Null

\* C11: every response returned by parseSmtpResponse, serialized from its
\* lines with CRLF and parsed again, gives a response with the same code, the
\* same enhancedCode and the same classification.
C11_RoundTrip ==
    Parsed =>
        LET again == parseSmtpResponse(Serialize(pres.lines)) IN
        /\ again # Null
        /\ again.code = pres.code
        /\ again.enhancedCode = pres.enhancedCode
        /\ again.classification = pres.classification

\* C11 witness: a parsed response that carries an enhanced code and was not
\* received in the serialized form (bare LF, or empty lines)
C11_Witness ==
    /\ Parsed
    /\ pres.enhancedCode # <<>>
    /\ Serialize(pres.lines) # pbuf

\* s contains sub
Contains(s, sub) == IndexOf(s, sub) # 0

\* C12: when an enhanced status code is extracted, the returned message does
\* not contain its text.
C12_MessageOmitsEnhancedCode ==
    (Parsed /\ pres.enhancedCode # <<>>) =>
        ~Contains(pres.message, pres.enhancedCode[1])

-----------------------------------------------------------------------------
(* Claims about MX resolution *)

DnsDone == dns.pc = "done"

C14_AscendingPriority ==
    (DnsDone /\ dns.result.success) =>
        \A i, j \in 1..Len(dns.result.records) :
            i < j => dns.result.records[i].priority <= dns.result.records[j].priority

\* the failure kinds that, by the taxonomy, are never retried: an attempt
\* classified HARD_FAIL or INVALID_DOMAIN, or one that got a reply without a
\* usable MX record (NO_MX_RECORDS)
NeverRetried(cause) == cause.nodata \/ cause.type \in {"HARD_FAIL", "INVALID_DOMAIN"}

\* C15: within one resolveMX call an attempt that failed with HARD_FAIL,
\* INVALID_DOMAIN or NO_MX_RECORDS is the last one: no back-off delay and no
\* further query follow it; a tier is queried at most retries + 1 times.
C15_HardFailsNotRetried ==
    /\ \A t \in 1..Len(ResolverChain) : dns.queried[t] <= MAX_RETRIES + 1
    /\ \A k \in 1..Len(dns.causes) :
          NeverRetried(dns.causes[k]) => (k = Len(dns.causes) /\ DnsDone)

\* C16: the tiers are queried in the order primary, fallback, secondary; a
\* later tier is queried only after the one before it used up its attempts
\* on soft or timeout failures; a success ends the chain with that tier's
\* records; a hard fail (HARD_FAIL, INVALID_DOMAIN or NO_MX_RECORDS) on a tier
\* ends the chain with no later tier queried.
C16_TierChain ==
    /\ \A t \in 2..Len(ResolverChain) :
          dns.queried[t] > 0 =>
              /\ dns.queried[t - 1] = MAX_RETRIES + 1
              /\ Len(dns.calls) >= t - 1
              /\ ~dns.calls[t - 1].ok
    /\ \A k \in 1..Len(dns.calls) :
          /\ dns.calls[k].ok => (k = Len(dns.calls) /\ DnsDone /\ dns.result.success)
          /\ (\E j \in 1..Len(dns.calls[k].causes) : NeverRetried(dns.calls[k].causes[j]))
                => (k = Len(dns.calls) /\ DnsDone /\ ~dns.result.success)

\* the cause of the last attempt made before getMXRecords returned a failure
LastCause ==
    LET c == dns.calls[Len(dns.calls)].causes IN c[Len(c)]

\* C17: when the last reply held no usable MX record the failure is reported
\* as NO_MX_RECORDS; an NXDOMAIN-like failure is reported as HARD_FAIL; a
\* refused, SERVFAIL or unrecognised failure is reported as SOFT_FAIL.
C17_ErrorTaxonomy ==
    (DnsDone /\ ~dns.result.success /\ dns.calls[Len(dns.calls)].causes # <<>>) =>
        /\ LastCause.nodata => dns.result.error.type = "NO_MX_RECORDS"
        /\ LastCause.type = "HARD_FAIL" => dns.result.error.type = "HARD_FAIL"
        /\ (LastCause.type = "SOFT_FAIL" /\ ~LastCause.nodata)
              => dns.result.error.type = "SOFT_FAIL"

-----------------------------------------------------------------------------
(* Claims about connectToSmtp *)

ConnDone == conn.pc = "done"

ConnFailed == ConnDone /\ ~conn.result.success

\* C18: when connectToSmtp reports a failure on the direct path, the socket
\* that createDirectConnection created is destroyed.
C18_NoSocketLeftOpen ==
    (ConnFailed /\ ~conn.proxy /\ conn.cur # 0) => conn.socks[conn.cur].destroyed

\* C19: connectToSmtp always resolves, with one of two shapes: success with a
\* live socket, the banner and bannerCode "220"; or failure with socket null
\* and an error that has a message and a type of the taxonomy.
C19_ResolvesWithOneShape ==
    ConnDone =>
        IF conn.result.success
        THEN /\ conn.result.socket # 0
             /\ ~conn.socks[conn.result.socket].destroyed
             /\ conn.result.banner # <<>>
             /\ conn.result.bannerCode = <<SMTP_BANNER_CODE>>
             /\ conn.result.error = Null
        ELSE /\ conn.result.socket = 0
             /\ conn.result.error # Null
             /\ conn.result.error.message # <<>>
             /\ conn.result.error.type \in CONNECTION_ERROR_TYPES
             /\ conn.result.banner = <<>>

\* C19 witness: a failure through a proxy that refused the connection, after
\* an earlier call
C19_Witness ==
    /\ ConnFailed
    /\ conn.proxy
    /\ conn.ncalls = 2
    /\ conn.result.error.code = "ECONNREFUSED"

PROXY_TYPES == {"PROXY_AUTH_FAILED", "PROXY_HANDSHAKE_TIMEOUT", "PROXY_CONNECTION_FAILED"}

SMTP_TYPES == {"SMTP_BANNER_TIMEOUT", "SMTP_BANNER_INVALID", "SMTP_CONNECTION_FAILED",
               "SMTP_SOCKET_ERROR"}

\* the handshake of this attempt completed: connectToSmtp holds the socket
HandshakeCompleted == conn.socketVar # 0

\* C20: through a proxy, a failure before the handshake completed that carries
\* no SOCKS reply code is reported with phase proxy and type
\* PROXY_CONNECTION_FAILED or PROXY_HANDSHAKE_TIMEOUT; a failure after the
\* handshake completed is reported with an SMTP_* type.
C20_BlameAttribution ==
    (ConnFailed /\ conn.proxy) =>
        /\ (~HandshakeCompleted /\ conn.err.socksCode = NoSocksCode) =>
              /\ conn.result.error.socksErrorPhase = "proxy"
              /\ conn.result.error.type \in {"PROXY_CONNECTION_FAILED",
                                              "PROXY_HANDSHAKE_TIMEOUT"}
        /\ HandshakeCompleted =>
              /\ conn.result.error.type \in SMTP_TYPES
              /\ conn.result.error.type \notin PROXY_TYPES

\* C20 witness: the proxy port refused the TCP connection
C20_Witness ==
    /\ ConnFailed
    /\ conn.proxy
    /\ ~HandshakeCompleted
    /\ conn.err.code = "ECONNREFUSED"
    /\ conn.result.error.type = "PROXY_CONNECTION_FAILED"
    /\ conn.result.error.socksErrorPhase = "proxy"

\* the reply codes the table lists, by phase
ProxyPhaseCodes == {1, 2, 7, 8, 255}

TargetPhaseCodes == {3, 4, 5, 6}

-----------------------------------------------------------------------------
(* Claims about the output mapper *)

Mapped == mapper.pc = "done"

\* the full-inbox and the disabled match, as the claim words them
FullInboxMatch(v) ==
    /\ v.smtpCode \in {<<452>>, <<552>>, <<554>>}
    /\ v.smtpMessage # <<>>
    /\ PatternTest(FULL_INBOX, v.smtpMessage[1])

DisabledMatch(v) ==
    /\ v.smtpCode = <<550>>
    /\ v.smtpMessage # <<>>
    /\ PatternTest(DISABLED, v.smtpMessage[1])

\* C22: formatOutput returns the five booleans, and is_deliverable is true
\* exactly when the status is VALID or CATCH_ALL and neither has_full_inbox
\* nor is_disabled is set; a full-inbox or a disabled match sets its flag and
\* makes is_deliverable false whatever the status.
C22_Deliverable ==
    Mapped =>
        /\ DOMAIN mapper.output = {"can_connect_smtp", "is_deliverable", "is_catch_all",
                                   "has_full_inbox", "is_disabled"}
        /\ \A f \in DOMAIN mapper.output : mapper.output[f] \in BOOLEAN
        /\ mapper.output.is_deliverable <=>
              /\ mapper.input.status \in {"VALID", "CATCH_ALL"}
              /\ ~mapper.output.has_full_inbox
              /\ ~mapper.output.is_disabled
        /\ FullInboxMatch(mapper.input) =>
              mapper.output.has_full_inbox /\ ~mapper.output.is_deliverable
        /\ DisabledMatch(mapper.input) =>
              mapper.output.is_disabled /\ ~mapper.output.is_deliverable

\* C22 witness: a VALID verdict whose reply says the mailbox is full
C22_Witness ==
    /\ Mapped
    /\ mapper.input.status = "VALID"
    /\ FullInboxMatch(mapper.input)
    /\ ~mapper.output.is_deliverable

\* C23: can_connect_smtp is true if and only if details.smtpCode is not null.
C23_ConnectIffSmtpCode ==
    Mapped => (mapper.output.can_connect_smtp <=> mapper.input.smtpCode # <<>>)

-----------------------------------------------------------------------------
(* Claims about the syntax gate *)

\* the number of "@" in an address
RECURSIVE CountAt(_)
CountAt(s) == IF s = <<>> THEN 0 ELSE (IF Head(s) = "@" THEN 1 ELSE 0) + CountAt(Tail(s))

\* the position of the first "@" of an address that has one
FirstAt(s) == CHOOSE i \in 1..Len(s) : s[i] = "@" /\ \A j \in 1..(i - 1) : s[j] # "@"

\* a non-empty local part, exactly one "@" and a non-empty domain
WellFormed(s) == CountAt(s) = 1 /\ FirstAt(s) > 1 /\ FirstAt(s) < Len(s)

\* the whole text after the "@"
AfterAt(s) == SubSeq(s, FirstAt(s) + 1, Len(s))

\* C24: an address that is not a non-empty local part, exactly one "@" and a
\* non-empty domain is answered INVALID "Invalid email syntax" at once, with
\* no MX query and no connection; for an accepted address the domain that is
\* resolved is the whole text after its "@".
C24_SyntaxGate ==
    pc # "init" =>
        IF WellFormed(email)
        THEN results.domain = AfterAt(email)
        ELSE /\ pc = "returned"
             /\ results.status = "INVALID"
             /\ results.reason = <<"Invalid email syntax">>
             /\ locals.mxResult = Null
             /\ socks = <<>>
             /\ ncalls = 0

-----------------------------------------------------------------------------
(* Claims about the bulk driver *)

\* the record of a line has one of the two shapes
IsResultRecord(r) ==
    DOMAIN r = {"email", "can_connect_smtp", "is_deliverable", "is_catch_all",
                "has_full_inbox", "is_disabled"}

IsErrorRecord(r) == DOMAIN r = {"email", "error"}

\* C25: at most 20 verifications are in flight at any moment; while a batch
\* is in flight every verification of the batches before it has settled; and
\* the array that is written has exactly one record per kept line, in the
\* order of the lines: { email, error } for a verification that threw, and
\* { email, ...publicResult } for every other line.
C25_BatchesOfTwenty ==
    bulk.pc # "idle" =>
        /\ bulk.pending <= 20
        /\ bulk.started - bulk.settled = bulk.pending
        /\ bulk.pc = "batch" => bulk.settled >= bulk.i
        /\ bulk.pc = "batch" => bulk.started <= bulk.i + 20
        /\ bulk.pc = "done" =>
              LET out == bulk.written[1]
                  kept == KeptLines(bulk.file)
              IN /\ Len(out) = Len(kept)
                 /\ \A k \in 1..Len(out) :
                      /\ out[k].email = kept[k]
                      /\ IF k \in bulk.throws THEN IsErrorRecord(out[k])
                         ELSE IsResultRecord(out[k])

\* C25 witness: a run of more than one batch in which a verification of the
\* first batch threw, and the lines of the second batch have their records
C25_Witness ==
    /\ bulk.pc = "done"
    /\ Len(bulk.allEmails) > 20
    /\ bulk.throws # {}
    /\ IsErrorRecord(bulk.written[1][1])
    /\ IsResultRecord(bulk.written[1][Len(bulk.allEmails)])

-----------------------------------------------------------------------------
(* Claims about the session's state and its reads *)

\* the place of a state on the line CONNECTED .. QUIT_SENT
StateRank(st) ==
    CASE st = "DISCONNECTED" -> 0
      [] st = "CONNECTED" -> 1
      [] st = "HELLO_SENT" -> 2
      [] st = "MAIL_FROM_SENT" -> 3
      [] st = "RCPT_TO_SENT" -> 4
      [] st = "QUIT_SENT" -> 5

\* a step forward: to a later state of the line, or to DISCONNECTED at its end
ForwardStep(from, to) ==
    \/ to = from
    \/ to = "DISCONNECTED"
    \/ StateRank(from) < StateRank(to)

\* C26 (as claimed): the state only moves forward along DISCONNECTED,
\* CONNECTED, HELLO_SENT, MAIL_FROM_SENT, RCPT_TO_SENT, QUIT_SENT,
\* DISCONNECTED; it never moves back to CONNECTED from a later state, and the
\* session never takes a new socket while the one it holds is open.
C26_StateOnlyForward ==
    [][/\ ForwardStep(state, state')
       /\ state' = "CONNECTED" /\ state' # state => state = "DISCONNECTED"
       /\ socket' # socket => ~SocketOpen]_vars


\* a command other than QUIT goes out on the session's socket
CommandWritten ==
    /\ socket # 0
    /\ socket \in DOMAIN socks
    /\ Len(socks'[socket].wire) = Len(socks[socket].wire) + 1
    /\ socks'[socket].wire[Len(socks'[socket].wire)] # "QUIT"

\* C27 (as claimed): when EHLO, HELO, MAIL FROM or RCPT TO is written, no
\* part of the reply to the command before it is outstanding: the server
\* owes no reply and no chunk of a reply is still to be read.
C27_NoCommandWhileReplyOutstanding ==
    [][CommandWritten => srv.owed = 0 /\ chunks = <<>>]_vars


\* a chunk leaves the socket
ChunkTaken == chunks # <<>> /\ chunks' = Tail(chunks)

\* C28 (as claimed): no chunk the server sent is dropped (a chunk that
\* arrives while no read is pending is kept for the next read), and a read
\* that returns a response has taken the whole reply to its command: no
\* chunk of that reply is left for the read of the next command.
C28_NoByteLost ==
    [][/\ ChunkTaken => Reading
       /\ (ChunkTaken /\ call' = NoCall /\ ret'.ok) => chunks' = <<>>]_vars


\* a chunk is handed to the pending read of sendHello
HelloReply == Reading /\ call.op = "sendHello" /\ ChunkTaken

\* the commands of a socket: every HELO comes right after an EHLO
HeloFollowsEhlo(w) ==
    \A i \in 1..Len(w) : w[i] = "HELO" => i > 1 /\ w[i - 1] = "EHLO"

\* sendHello has ended
HelloEnded == call' = NoCall /\ ret'.op = "sendHello"

\* C29: sendHello writes EHLO first; it goes on to write HELO exactly when
\* the reply to EHLO has code 500, 501 or 502, and never after the reply to
\* HELO; any other reply that is not SUCCESS, and a HELO reply that is not
\* SUCCESS, ends it with a handshake error and no further command; it
\* returns exactly when the last reply it received is SUCCESS.
C29_HelloFallback ==
    [][/\ \A c \in 499..503 : HeloFallback(c) <=> c \in {500, 501, 502}
       /\ (call.op = "sendHello" /\ call.at = "write") => call.cmd = "EHLO"
       /\ \A i \in DOMAIN socks : HeloFollowsEhlo(socks'[i].wire)
       /\ HelloReply =>
            LET reply == ReadResult(Head(chunks))
                fallback == /\ reply # Null
                            /\ call.at = "read"
                            /\ reply.code \in {500, 501, 502}
            IN /\ fallback <=> (call'.op = "sendHello" /\ call'.at = "write2"
                                  /\ call'.cmd = "HELO")
               /\ ~fallback => HelloEnded /\ socks' = socks
               /\ (~fallback /\ reply # Null /\ reply.classification # "SUCCESS")
                     => ~ret'.ok /\ ret'.err = "Handshake failed"
               /\ (HelloEnded /\ ret'.ok) <=>
                     (reply # Null /\ reply.classification = "SUCCESS")]_vars

\* C29 witness: sendHello returned after EHLO was answered 502 and HELO 250
C29_Witness ==
    /\ call = NoCall
    /\ ret.op = "sendHello"
    /\ ret.ok
    /\ socket # 0
    /\ socks[socket].wire = <<"EHLO", "HELO">>


\* sendHello was let in by its guard and then failed
HelloFailed ==
    /\ call = NoCall
    /\ ret.op = "sendHello"
    /\ ~ret.ok
    /\ ret.err # "Must connect before sending HELLO"

\* C30 (as claimed): after sendHello failed (a reply that is not SUCCESS, a
\* reply that does not parse, or a write error) the state has not advanced
\* past CONNECTED, so that the guard of sendMailFrom rejects a following call.
C30_HelloSentOnlyAfterSuccess ==
    HelloFailed => state = "CONNECTED" /\ ~MailFromAllowed(state)

-----------------------------------------------------------------------------
(* Claims about the greylisted detail *)

\* C35 (as claimed): a returned verdict UNKNOWN with the greylisted reason
\* has details.greylisted = true, and a returned verdict with
\* details.greylisted = true has status UNKNOWN.
C35_GreylistedAgreesWithVerdict ==
    Returned =>
        /\ (results.status = "UNKNOWN" /\ results.reason = <<"Greylisted (Try again later)">>)
              => results.greylisted
        /\ results.greylisted => results.status = "UNKNOWN"

-----------------------------------------------------------------------------
(* Claims about quit() *)

\* quit() has ended
QuitEnded == call = NoCall /\ ret.op = "quit"

\* C31: quit() never throws and never reads; when it has ended the state is
\* DISCONNECTED and the session's socket, if it has one, is destroyed, also
\* when the QUIT write failed; called with no socket or with a destroyed
\* socket it writes nothing and sets the state to DISCONNECTED.
C31_QuitAlwaysDisconnects ==
    [][/\ QuitEnded' =>
            /\ ret'.ok
            /\ state' = "DISCONNECTED"
            /\ socket' # 0 => socks'[socket'].destroyed
       /\ call'.op = "quit" => call'.at \in {"write", "close"}
       /\ (call.op = "quit" /\ call.at = "write" /\ call' # call) =>
            /\ call'.op = "quit" /\ call'.at = "close"
            /\ srv' = srv
       /\ (ncalls' = ncalls + 1 /\ CalledOp = "quit" /\ ~SocketOpen) =>
            QuitEnded' /\ socks' = socks]_vars

\* C31 witness: quit() ended after it wrote QUIT in the middle of a
\* conversation; the socket is destroyed and the state DISCONNECTED
C31_Witness ==
    /\ QuitEnded
    /\ ret.ok
    /\ state = "DISCONNECTED"
    /\ socket # 0
    /\ socks[socket].destroyed
    /\ socks[socket].wire = <<"EHLO", "MAIL FROM", "QUIT">>

-----------------------------------------------------------------------------
(* Claims about the banner step *)

\* the first characters of a chunk
StartsWith(chunk, prefix) ==
    Len(chunk) >= Len(prefix) /\ SubSeq(chunk, 1, Len(prefix)) = prefix

\* connectToSmtp resolved after the transport was up
BannerStepDone == ConnDone /\ conn.socketVar # 0

\* C32 (as claimed): once the transport is up, a first chunk that starts with
\* "220 " or "220-" gives success, a first chunk whose code is not 220 gives
\* SMTP_BANNER_INVALID, SMTP_BANNER_TIMEOUT is given only when no chunk
\* arrived, and after every banner failure the socket is destroyed when
\* connectToSmtp resolves.
C32_BannerStep ==
    BannerStepDone =>
        /\ (\/ StartsWith(conn.dataBuffer, <<"2", "2", "0", " ">>)
            \/ StartsWith(conn.dataBuffer, <<"2", "2", "0", "-">>))
              => conn.result.success
        /\ (conn.dataBuffer # <<>> /\ ~StartsWith(conn.dataBuffer, SMTP_BANNER_CODE))
              => ConnFailed /\ conn.result.error.type = "SMTP_BANNER_INVALID"
        /\ (ConnFailed /\ conn.result.error.type = "SMTP_BANNER_TIMEOUT")
              => conn.dataBuffer = <<>>
        /\ ConnFailed => conn.socks[conn.socketVar].destroyed

-----------------------------------------------------------------------------
(* Claims about the query timer *)

\* every attempt of a resolveMX call was ended by the timer
AllByTimer(c) ==
    ~c.ok /\ c.causes # <<>> /\ \A j \in 1..Len(c.causes) : c.causes[j].timer

\* C33 (as claimed): an attempt ended by its timer is a TIMEOUT-class
\* failure, and a resolveMX call whose attempts were all ended by the timer
\* throws an error of kind TIMEOUT.
C33_TimerExpiryIsTimeout ==
    \A k \in 1..Len(dns.calls) :
        /\ \A j \in 1..Len(dns.calls[k].causes) :
              dns.calls[k].causes[j].timer => dns.calls[k].causes[j].type = "TIMEOUT"
        /\ AllByTimer(dns.calls[k]) => dns.calls[k].type = "TIMEOUT"

-----------------------------------------------------------------------------
(* Claims about the handshake timer *)

\* connectToSmtp reported that the handshake timer expired
TimerReported ==
    /\ ConnFailed
    /\ conn.proxy
    /\ conn.err.message = <<"SOCKS5", "proxy", "handshake", "timeout">>

\* C34 (as claimed): an attempt ended by the handshake timer is reported as
\* PROXY_HANDSHAKE_TIMEOUT; the handshake it leaves behind is cancelled, so
\* no handshake is pending and none has completed without an owner; and of
\* the sockets opened through a proxy only the one returned to the caller is
\* open when connectToSmtp has resolved.
C34_HandshakeTimerCancels ==
    /\ TimerReported => conn.result.error.type = "PROXY_HANDSHAKE_TIMEOUT"
    /\ conn.abandoned = {}
    /\ conn.late = {}
    /\ (ConnFailed /\ conn.proxy /\ conn.cur # 0) => conn.socks[conn.cur].destroyed

=============================================================================
